---- MODULE Spec2Model ----
(***************************************************************************)
(* A model of gojsonlex: the byte-driven JSON lexer (JSONLexer), its       *)
(* refillable buffer (fetchNewData) and the in-place unescaper             *)
(* (UnescapeBytesInplace).                                                 *)
(*                                                                         *)
(* Bytes are the integers 0..255.  Go slices are 0-based and half-open;    *)
(* the operators At and Slice keep the source's indices.                   *)
(***************************************************************************)
EXTENDS Integers, Sequences, FiniteSets, TLC

VARIABLES
    l,        \* the JSONLexer: its fields, named as in the source
    r,        \* the io.Reader under the lexer: its bytes and its read offset
    pc,       \* "ready": between token calls; "loop": inside TokenFast's for loop
    out,      \* the results the token calls have returned so far, in order
    ret,      \* what Token() made of each of these results, in order
    bufSize,  \* the size given to SetBufSize for the lexer now running
    prevOut,  \* the results of the finished run with the previous buffer size
    expect,   \* the values the input was rendered from (<<>> when it was not)
    unesc     \* a call of UnescapeBytesInplace on its own: the bytesUnescaper,
              \* the input it was given, its position, its result and error

vars == <<l, r, pc, out, ret, bufSize, prevOut, expect, unesc>>

----------------------------------------------------------------------------
(* Bounds of the model. *)

\* the most fragments an input is put together from
MaxChunks == 3
\* the largest initial buffer size tried (the smallest is 1)
MaxBufSize == 3
\* token calls go on until this many of them have ended in io.EOF or an error
MaxTail == 2
\* the most values, and the most separators around them, of a rendered input
MaxValues == 2
\* the most pieces a number text is put together from
MaxNumberChunks == 3
\* the most pieces an input of the unescaper is put together from
MaxUnescapeChunks == 2

----------------------------------------------------------------------------
(* Bytes and slices. *)

At(s, i) == s[i + 1]

Slice(s, a, b) == SubSeq(s, a + 1, b)

Zeros(n) == [i \in 1..n |-> 0]

Min(a, b) == IF a <= b THEN a ELSE b

\* the byte values the source names by character literals
Ch == [quote |-> 34, bslash |-> 92, slash |-> 47, plus |-> 43, minus |-> 45,
       dot |-> 46, comma |-> 44, colon |-> 58, lbrace |-> 123, rbrace |-> 125,
       lbrack |-> 91, rbrack |-> 93, space |-> 32, zero |-> 48, nine |-> 57,
       a |-> 97, b |-> 98, e |-> 101, f |-> 102, n |-> 110, r |-> 114,
       t |-> 116, u |-> 117, z |-> 122, A |-> 65, E |-> 69, F |-> 70,
       N |-> 78, T |-> 84, U |-> 85, Z |-> 90]

\* unicode.IsDigit on a byte: runes up to U+00FF are digits only in '0'..'9'
IsDigit(c) == Ch.zero <= c /\ c <= Ch.nine

\* unicode.IsSpace on a byte: '\t' '\n' '\v' '\f' '\r' ' ' U+0085 U+00A0
IsSpace(c) == c \in {9, 10, 11, 12, 13, 32, 133, 160}

\* unicode.ToLower on a byte (Latin-1: A-Z and U+00C0..U+00DE but U+00D7)
\* unicode.ToLower that leaves upper case as it is
ToLowerIdentity(c) == c

ToLower(c) ==
    IF (Ch.A <= c /\ c <= Ch.Z) \/ (192 <= c /\ c <= 222 /\ c # 215)
    THEN c + 32 ELSE c

IsDelim(c) ==
    c \in {Ch.lbrace, Ch.rbrace, Ch.lbrack, Ch.rbrack, Ch.colon, Ch.comma}

\* IsValidEscapedSymbol that takes every lower-case letter
IsValidEscapedSymbolAnyLetter(c) ==
    c \in {Ch.quote, Ch.bslash, Ch.slash} \/ c \in 97..122 \/ c = Ch.U

IsValidEscapedSymbol(c) ==
    c \in {Ch.n, Ch.r, Ch.t, Ch.b, Ch.f, Ch.bslash, Ch.slash, Ch.quote, Ch.u, Ch.U}

IsHexDigit(c) ==
    \/ IsDigit(c)
    \/ (Ch.a <= c /\ c <= Ch.f)
    \/ (Ch.A <= c /\ c <= Ch.F)

\* CanAppearInNumber without the letters of the exponent
CanAppearInNumberNoExponent(c) ==
    \/ IsDigit(c)
    \/ c = Ch.minus \/ c = Ch.plus
    \/ c = Ch.dot

CanAppearInNumber(c) ==
    \/ IsDigit(c)
    \/ c = Ch.minus \/ c = Ch.plus
    \/ c = Ch.dot
    \/ c = Ch.e \/ c = Ch.E

----------------------------------------------------------------------------
(* Hex and UTF-16/UTF-8 utilities. *)

\* the four digits of a \u escape
utf16SequenceLength == 4

\* unicode.ReplacementChar, which utf16.DecodeRune returns for an invalid pair
ReplacementChar == 65533

\* HexBytesToUint: the value of the hex digits of in, most significant first
\* HexBytesToUint that takes an upper-case digit for a value ten too small
RECURSIVE HexBytesToUintUpperCase(_, _, _)
HexBytesToUintUpperCase(in, i, result) ==
    IF i >= Len(in) THEN [v |-> result, err |-> ""]
    ELSE LET c == At(in, i)
             shifted == result * 16
         IN  IF Ch.zero <= c /\ c <= Ch.nine
             THEN HexBytesToUintUpperCase(in, i + 1, shifted + (c - Ch.zero))
             ELSE IF Ch.a <= c /\ c <= Ch.f
             THEN HexBytesToUintUpperCase(in, i + 1, shifted + (c - Ch.a + 10))
             ELSE IF Ch.A <= c /\ c <= Ch.F
             THEN HexBytesToUintUpperCase(in, i + 1, shifted + (c - Ch.A))
             ELSE [v |-> 0, err |-> "is not a hex number"]

\* HexBytesToUint that takes g and G for digits, one past f and F
RECURSIVE HexBytesToUintThroughG(_, _, _)
HexBytesToUintThroughG(in, i, result) ==
    IF i >= Len(in) THEN [v |-> result, err |-> ""]
    ELSE LET c == At(in, i)
             shifted == result * 16
         IN  IF Ch.zero <= c /\ c <= Ch.nine
             THEN HexBytesToUintThroughG(in, i + 1, shifted + (c - Ch.zero))
             ELSE IF Ch.a <= c /\ c <= Ch.f + 1
             THEN HexBytesToUintThroughG(in, i + 1, shifted + (c - Ch.a + 10))
             ELSE IF Ch.A <= c /\ c <= Ch.F + 1
             THEN HexBytesToUintThroughG(in, i + 1, shifted + (c - Ch.A + 10))
             ELSE [v |-> 0, err |-> "is not a hex number"]

RECURSIVE HexBytesToUintFrom(_, _, _)
HexBytesToUintFrom(in, i, result) ==
    IF i >= Len(in) THEN [v |-> result, err |-> ""]
    ELSE LET c == At(in, i)
             shifted == result * 16
         IN  IF Ch.zero <= c /\ c <= Ch.nine
             THEN HexBytesToUintFrom(in, i + 1, shifted + (c - Ch.zero))
             ELSE IF Ch.a <= c /\ c <= Ch.f
             THEN HexBytesToUintFrom(in, i + 1, shifted + (c - Ch.a + 10))
             ELSE IF Ch.A <= c /\ c <= Ch.F
             THEN HexBytesToUintFrom(in, i + 1, shifted + (c - Ch.A + 10))
             ELSE [v |-> 0, err |-> "is not a hex number"]

HexBytesToUint(in) == HexBytesToUintFrom(in, 0, 0)

\* utf16.IsSurrogate
IsSurrogate(rn) == 55296 <= rn /\ rn < 57344

\* utf16.DecodeRune that adds the halves without the 0x10000
DecodeRuneNoOffset(r1, r2) ==
    IF 55296 <= r1 /\ r1 < 56320 /\ 56320 <= r2 /\ r2 < 57344
    THEN (r1 - 55296) * 1024 + (r2 - 56320)
    ELSE ReplacementChar

\* utf16.DecodeRune that takes any second half for a low surrogate
DecodeRuneAnySecond(r1, r2) ==
    IF 55296 <= r1 /\ r1 < 56320
    THEN (r1 - 55296) * 1024 + (r2 % 1024) + 65536
    ELSE ReplacementChar

\* utf16.DecodeRune
DecodeRune(r1, r2) ==
    IF 55296 <= r1 /\ r1 < 56320 /\ 56320 <= r2 /\ r2 < 57344
    THEN (r1 - 55296) * 1024 + (r2 - 56320) + 65536
    ELSE ReplacementChar

\* utf8.EncodeRune: the bytes written for rune rn
EncodeRune(rn) ==
    IF 0 <= rn /\ rn < 128 THEN <<rn>>
    ELSE IF 0 <= rn /\ rn < 2048
    THEN <<192 + (rn \div 64), 128 + (rn % 64)>>
    ELSE IF rn < 0 \/ rn > 1114111 \/ IsSurrogate(rn)
    THEN <<239, 191, 189>>
    ELSE IF rn < 65536
    THEN <<224 + (rn \div 4096), 128 + ((rn \div 64) % 64), 128 + (rn % 64)>>
    ELSE <<240 + (rn \div 262144), 128 + ((rn \div 4096) % 64),
           128 + ((rn \div 64) % 64), 128 + (rn % 64)>>

\* s with the bytes bs written at index i (0-based), as copy into s[i:] does
WriteAt(s, i, bs) ==
    [k \in 1..Len(s) |-> IF i < k /\ k <= i + Len(bs) THEN bs[k - i] ELSE s[k]]

----------------------------------------------------------------------------
(* The in-place unescaper (bytesUnescaper).  A step returns the unescaper  *)
(* after the byte and the error ("" for nil).                              *)

NewBytesUnescaper(input) ==
    [input |-> input, writeIter |-> 0, readIter |-> 0,
     pendingEscapedSymbol |-> FALSE, pendingUnicodeBytes |-> 0,
     pendingSecondUTF16SeqPoint |-> FALSE, firstUTF16SeqPoint |-> 0]

\* processUnicodeByte that keeps only a high surrogate pending and writes a
\* low surrogate that comes first
processUnicodeByteLowWritten(u, c) ==
    LET u1 == [u EXCEPT !.pendingUnicodeBytes = @ - 1]
        utf16Sequence ==
            Slice(u.input, u.readIter + 1 - utf16SequenceLength, u.readIter + 1)
        h == HexBytesToUint(utf16Sequence)
        outRune == h.v
    IN  IF u1.pendingUnicodeBytes # 0 THEN [u |-> u1, err |-> ""]
        ELSE IF h.err # "" THEN [u |-> u1, err |-> "invalid unicode sequence"]
        ELSE IF 55296 <= outRune /\ outRune < 56320 /\ ~u1.pendingSecondUTF16SeqPoint
        THEN [u |-> [u1 EXCEPT !.pendingSecondUTF16SeqPoint = TRUE,
                               !.firstUTF16SeqPoint = outRune],
              err |-> ""]
        ELSE LET decoded == IF u1.pendingSecondUTF16SeqPoint
                            THEN DecodeRune(u1.firstUTF16SeqPoint, outRune)
                            ELSE outRune
                 bs == EncodeRune(decoded)
             IN  IF u1.pendingSecondUTF16SeqPoint /\ decoded = ReplacementChar
                 THEN [u |-> u1, err |-> "invalid surrogate pair"]
                 ELSE [u |-> [u1 EXCEPT
                                !.pendingSecondUTF16SeqPoint = FALSE,
                                !.input = WriteAt(@, u1.writeIter, bs),
                                !.writeIter = @ + Len(bs)],
                       err |-> ""]

processUnicodeByte(u, c) ==
    LET u1 == [u EXCEPT !.pendingUnicodeBytes = @ - 1]
        utf16Sequence ==
            Slice(u.input, u.readIter + 1 - utf16SequenceLength, u.readIter + 1)
        h == HexBytesToUint(utf16Sequence)
        outRune == h.v
    IN  IF u1.pendingUnicodeBytes # 0 THEN [u |-> u1, err |-> ""]
        ELSE IF h.err # "" THEN [u |-> u1, err |-> "invalid unicode sequence"]
        ELSE IF IsSurrogate(outRune) /\ ~u1.pendingSecondUTF16SeqPoint
        THEN [u |-> [u1 EXCEPT !.pendingSecondUTF16SeqPoint = TRUE,
                               !.firstUTF16SeqPoint = outRune],
              err |-> ""]
        ELSE LET decoded == IF u1.pendingSecondUTF16SeqPoint
                            THEN DecodeRune(u1.firstUTF16SeqPoint, outRune)
                            ELSE outRune
                 bs == EncodeRune(decoded)
             IN  IF u1.pendingSecondUTF16SeqPoint /\ decoded = ReplacementChar
                 THEN [u |-> u1, err |-> "invalid surrogate pair"]
                 ELSE [u |-> [u1 EXCEPT
                                !.pendingSecondUTF16SeqPoint = FALSE,
                                !.input = WriteAt(@, u1.writeIter, bs),
                                !.writeIter = @ + Len(bs)],
                       err |-> ""]

\* SimpleEscape that takes \b for the letter b
SimpleEscapeLetterB(c) ==
    IF c = Ch.n THEN 10
    ELSE IF c = Ch.r THEN 13
    ELSE IF c = Ch.t THEN 9
    ELSE IF c = Ch.b THEN Ch.b
    ELSE IF c = Ch.f THEN 12
    ELSE IF c \in {Ch.bslash, Ch.slash, Ch.quote} THEN c
    ELSE 0 - 1

\* SimpleEscape that knows \a, the bell
SimpleEscapeWithBell(c) ==
    IF c = Ch.n THEN 10
    ELSE IF c = Ch.r THEN 13
    ELSE IF c = Ch.t THEN 9
    ELSE IF c = Ch.b THEN 8
    ELSE IF c = Ch.f THEN 12
    ELSE IF c \in {Ch.bslash, Ch.slash, Ch.quote} THEN c
    ELSE IF c = Ch.a THEN 7
    ELSE 0 - 1

\* SimpleEscape that does not know \f
SimpleEscapeNoFormFeed(c) ==
    IF c = Ch.n THEN 10
    ELSE IF c = Ch.r THEN 13
    ELSE IF c = Ch.t THEN 9
    ELSE IF c = Ch.b THEN 8
    ELSE IF c = Ch.bslash THEN Ch.bslash
    ELSE IF c = Ch.slash THEN Ch.slash
    ELSE IF c = Ch.quote THEN Ch.quote
    ELSE 0 - 1

\* the byte a simple escape stands for, 0 - 1 when c is no simple escape
SimpleEscape(c) ==
    IF c = Ch.n THEN 10
    ELSE IF c = Ch.r THEN 13
    ELSE IF c = Ch.t THEN 9
    ELSE IF c = Ch.b THEN 8
    ELSE IF c = Ch.f THEN 12
    ELSE IF c = Ch.bslash THEN Ch.bslash
    ELSE IF c = Ch.slash THEN Ch.slash
    ELSE IF c = Ch.quote THEN Ch.quote
    ELSE 0 - 1

processSpecialByte(u, c) ==
    LET u1 == [u EXCEPT !.pendingEscapedSymbol = FALSE]
    IN  IF c = Ch.u \/ c = Ch.U
        THEN [u |-> [u1 EXCEPT !.pendingUnicodeBytes = utf16SequenceLength],
              err |-> ""]
        ELSE IF u1.pendingSecondUTF16SeqPoint
        THEN [u |-> u1, err |-> "missing second sequence point"]
        ELSE IF SimpleEscape(c) < 0
        THEN [u |-> u1, err |-> "invalid escape sequence"]
        ELSE [u |-> [u1 EXCEPT !.input = WriteAt(@, u1.writeIter, <<SimpleEscape(c)>>),
                               !.writeIter = @ + 1],
              err |-> ""]

processBackSlashByte(u, c) ==
    [u |-> [u EXCEPT !.pendingEscapedSymbol = TRUE], err |-> ""]

\* processRegularByte that leaves out a quote
processRegularByteDropsQuote(u, c) ==
    IF c = 34 THEN [u |-> u, err |-> ""]
    ELSE [u |-> [u EXCEPT !.input = WriteAt(@, u.writeIter, <<c>>),
                          !.writeIter = @ + 1],
          err |-> ""]

\* processRegularByte that writes the byte twice
processRegularByteTwice(u, c) ==
    [u |-> [u EXCEPT !.input = WriteAt(@, u.writeIter, <<c, c>>),
                     !.writeIter = @ + 2],
     err |-> ""]

processRegularByte(u, c) ==
    [u |-> [u EXCEPT !.input = WriteAt(@, u.writeIter, <<c>>),
                     !.writeIter = @ + 1],
     err |-> ""]

\* terminate that does not look at the hex digits still awaited
terminateNoUnicodeCheck(u) ==
    IF u.pendingSecondUTF16SeqPoint THEN "missing second sequence point"
    ELSE IF u.pendingEscapedSymbol THEN "incomplete escape sequence"
    ELSE ""

terminate(u) ==
    IF u.pendingSecondUTF16SeqPoint THEN "missing second sequence point"
    ELSE IF u.pendingEscapedSymbol \/ u.pendingUnicodeBytes > 0
    THEN "incomplete escape sequence"
    ELSE ""

\* the body of doUnescaping's loop for the byte at readIter
UnescapeStep(u) ==
    LET currByte == At(u.input, u.readIter)
    IN  IF u.pendingUnicodeBytes > 0 THEN processUnicodeByte(u, currByte)
        ELSE IF u.pendingEscapedSymbol THEN processSpecialByte(u, currByte)
        ELSE IF currByte = Ch.bslash THEN processBackSlashByte(u, currByte)
        ELSE processRegularByte(u, currByte)

\* doUnescaping: the returned slice (res), the error, and the array afterwards
RECURSIVE doUnescaping(_)
doUnescaping(u) ==
    IF u.readIter >= Len(u.input)
    THEN IF terminate(u) # ""
         THEN [res |-> <<>>, err |-> terminate(u), input |-> u.input]
         ELSE [res |-> Slice(u.input, 0, u.writeIter), err |-> "", input |-> u.input]
    ELSE LET s == UnescapeStep(u)
         IN  IF s.err # ""
             THEN [res |-> <<>>, err |-> s.err, input |-> s.u.input]
             ELSE doUnescaping([s.u EXCEPT !.readIter = @ + 1])

UnescapeBytesInplace(input) == doUnescaping(NewBytesUnescaper(input))

----------------------------------------------------------------------------
(* strconv.ParseFloat(str, 64), which currTokenAsNumber calls.  A float64  *)
(* is modelled by the real number it was parsed from, <<neg, m, e>> for    *)
(* (-1)^neg * m * 10^e with m not divisible by 10 (zero: m = 0, e = 0;     *)
(* infinity: m = 0 - 1).  Two literals of at most 9 significant digits     *)
(* and a normal-range exponent give the same float64 exactly when they     *)
(* denote the same real; literals of more than 9 significant digits,       *)
(* hexadecimal mantissas (0x...p...) and '_' separators are outside the    *)
(* inputs of this model.                                                   *)

LowerSeq(s) == [i \in 1..Len(s) |-> ToLower(s[i])]

\* "inf" and "infinity", which ParseFloat accepts after an optional sign
InfWords ==
    {<<105, 110, 102>>, <<105, 110, 102, 105, 110, 105, 116, 121>>}

\* the mantissa scan of readFloat from index i: digits and at most one '.'
RECURSIVE ScanMantissa(_, _, _, _, _)
ScanMantissa(s, i, sawdot, digits, frac) ==
    IF i >= Len(s)
    THEN [i |-> i, digits |-> digits, frac |-> frac]
    ELSE LET c == At(s, i)
         IN  IF c = Ch.dot /\ ~sawdot
             THEN ScanMantissa(s, i + 1, TRUE, digits, frac)
             ELSE IF IsDigit(c)
             THEN ScanMantissa(s, i + 1, sawdot, Append(digits, c - Ch.zero),
                               IF sawdot THEN frac + 1 ELSE frac)
             ELSE [i |-> i, digits |-> digits, frac |-> frac]

\* the exponent digits from index i; readFloat stops adding digits at 10000
RECURSIVE ScanExponent(_, _, _)
ScanExponent(s, i, e) ==
    IF i < Len(s) /\ IsDigit(At(s, i))
    THEN ScanExponent(s, i + 1,
                      IF e < 10000 THEN e * 10 + (At(s, i) - Ch.zero) ELSE e)
    ELSE [i |-> i, e |-> e]

RECURSIVE DigitsValue(_, _, _)
DigitsValue(digits, i, acc) ==
    IF i > Len(digits) THEN acc
    ELSE DigitsValue(digits, i + 1, acc * 10 + digits[i])

RECURSIVE NumDigits(_)
NumDigits(m) == IF m < 10 THEN 1 ELSE 1 + NumDigits(m \div 10)

RECURSIVE Pow10(_)
Pow10(k) == IF k <= 0 THEN 1 ELSE 10 * Pow10(k - 1)

\* m * 10^e with the factors of ten moved from m into e
RECURSIVE Normalize(_, _, _)
Normalize(neg, m, e) ==
    IF m = 0 THEN <<neg, 0, 0>>
    ELSE IF m % 10 = 0 THEN Normalize(neg, m \div 10, e + 1)
    ELSE <<neg, m, e>>

\* the float64 nearest to the real v, or the range error of ParseFloat:
\* at or above 2^1024 - 2^970 = 1.797693134862315807...e308 the result is
\* infinite and an error; below 1e-324 it is zero
RoundFloat64(v) ==
    LET m == v[2]
        top == NumDigits(m) + v[3]
        m9 == m * Pow10(9 - NumDigits(m))
    IN  IF m = 0 THEN [ok |-> TRUE, v |-> v]
        ELSE IF top > 309 \/ (top = 309 /\ m9 >= 179769314)
        THEN [ok |-> FALSE, v |-> <<v[1], 0 - 1, 0>>]
        ELSE IF top <= 0 - 324 THEN [ok |-> TRUE, v |-> <<v[1], 0, 0>>]
        ELSE [ok |-> TRUE, v |-> v]

ParseFloat(s) ==
    LET signed == Len(s) > 0 /\ At(s, 0) \in {Ch.plus, Ch.minus}
        neg == IF signed /\ At(s, 0) = Ch.minus THEN 1 ELSE 0
        i0 == IF signed THEN 1 ELSE 0
        mant == ScanMantissa(s, i0, FALSE, <<>>, 0)
        hasExp == mant.i < Len(s) /\ ToLower(At(s, mant.i)) = Ch.e
        j0 == mant.i + 1
        esigned == j0 < Len(s) /\ At(s, j0) \in {Ch.plus, Ch.minus}
        eneg == esigned /\ At(s, j0) = Ch.minus
        j1 == IF esigned THEN j0 + 1 ELSE j0
        ex == ScanExponent(s, j1, 0)
        end == IF hasExp THEN ex.i ELSE mant.i
        e10 == (IF hasExp THEN (IF eneg THEN 0 - ex.e ELSE ex.e) ELSE 0) - mant.frac
        bad == [ok |-> FALSE, v |-> <<0, 0, 0>>]
    IN  IF LowerSeq(Slice(s, i0, Len(s))) \in InfWords
        THEN [ok |-> TRUE, v |-> <<neg, 0 - 1, 0>>]
        ELSE IF Len(mant.digits) = 0 THEN bad
        ELSE IF hasExp /\ ex.i = j1 THEN bad
        ELSE IF end # Len(s) THEN bad
        ELSE RoundFloat64(Normalize(neg, DigitsValue(mant.digits, 1, 0), e10))

----------------------------------------------------------------------------
(* The lexer (JSONLexer).  Lexer states and token types are named by       *)
(* strings; a process* operator returns the lexer after the byte and the   *)
(* error ("" for nil).  Indexing a literal past its end is Go's run-time   *)
(* panic, which leaves the call like an error.                             *)

\* the initial size of the buffer
defaultBufSize == 4096

LiteralTrue == <<116, 114, 117, 101>>
LiteralFalse == <<102, 97, 108, 115, 101>>
LiteralNull == <<110, 117, 108, 108>>

\* the fields of a JSONLexer built by NewJSONLexer, before SetBufSize
NewJSONLexer ==
    [readingFinished |-> FALSE, state |-> "Idle", buf |-> Zeros(defaultBufSize),
     currPos |-> 0, unicodeRuneBytesCounter |-> 0, currTokenStart |-> 0,
     currTokenEnd |-> 0, currTokenType |-> "delim", newTokenFound |-> FALSE,
     skipDelims |-> FALSE]

SetBufSize(lx, n) == [lx EXCEPT !.buf = Zeros(n)]

SetSkipDelims(lx, mustSkip) == [lx EXCEPT !.skipDelims = TRUE]

\* processStateSkipping that makes a token of a delimiter
processStateSkippingDelimToken(lx, c) ==
    IF IsDelim(c)
    THEN [l |-> [lx EXCEPT !.currTokenType = "delim", !.currTokenStart = lx.currPos,
                           !.currTokenEnd = lx.currPos, !.newTokenFound = TRUE],
          err |-> ""]
    ELSE IF c = Ch.quote
    THEN [l |-> [lx EXCEPT !.state = "String", !.currTokenType = "string",
                           !.currTokenStart = lx.currPos],
          err |-> ""]
    ELSE IF CanAppearInNumber(c)
    THEN [l |-> [lx EXCEPT !.state = "Number", !.currTokenType = "number",
                           !.currTokenStart = lx.currPos],
          err |-> ""]
    ELSE [l |-> lx, err |-> ""]

processStateSkipping(lx, c) ==
    IF c = Ch.quote
    THEN [l |-> [lx EXCEPT !.state = "String", !.currTokenType = "string",
                           !.currTokenStart = lx.currPos],
          err |-> ""]
    ELSE IF CanAppearInNumber(c)
    THEN [l |-> [lx EXCEPT !.state = "Number", !.currTokenType = "number",
                           !.currTokenStart = lx.currPos],
          err |-> ""]
    ELSE IF c \in {Ch.t, Ch.T, Ch.f, Ch.F}
    THEN [l |-> [lx EXCEPT !.state = "Bool", !.currTokenType = "bool",
                           !.currTokenStart = lx.currPos],
          err |-> ""]
    ELSE IF c \in {Ch.n, Ch.N}
    THEN [l |-> [lx EXCEPT !.state = "Null", !.currTokenType = "null",
                           !.currTokenStart = lx.currPos],
          err |-> ""]
    ELSE [l |-> lx, err |-> ""]

\* processStateString that ends the string at a '"' and takes a backslash
\* for a byte of the string
processStateStringNoEscape(lx, c) ==
    IF c = Ch.quote
    THEN [l |-> [lx EXCEPT !.state = "Skipping", !.currTokenEnd = lx.currPos,
                           !.newTokenFound = TRUE],
          err |-> ""]
    ELSE [l |-> lx, err |-> ""]

processStateString(lx, c) ==
    IF c = Ch.quote
    THEN [l |-> [lx EXCEPT !.state = "Skipping", !.currTokenEnd = lx.currPos,
                           !.newTokenFound = TRUE],
          err |-> ""]
    ELSE IF c = Ch.bslash
    THEN [l |-> [lx EXCEPT !.state = "PendingEscapedSymbol"], err |-> ""]
    ELSE [l |-> lx, err |-> ""]

processStatePendingEscapedSymbol(lx, c) ==
    IF ~IsValidEscapedSymbol(c)
    THEN [l |-> lx, err |-> "invalid escape sequence"]
    ELSE IF c = Ch.u \/ c = Ch.U
    THEN [l |-> [lx EXCEPT !.state = "UnicodeRune", !.unicodeRuneBytesCounter = 0],
          err |-> ""]
    ELSE [l |-> [lx EXCEPT !.state = "String"], err |-> ""]

\* processStateUnicodeRune that takes a byte that is no hex digit for the end
\* of the escape when the byte after it in the buffer is a quote
processStateUnicodeRunePeeks(lx, c) ==
    IF ~IsHexDigit(c)
    THEN IF lx.currPos + 1 < Len(lx.buf) /\ At(lx.buf, lx.currPos + 1) = 34
         THEN [l |-> [lx EXCEPT !.state = "String"], err |-> ""]
         ELSE [l |-> lx, err |-> "invalid hex digit"]
    ELSE [l |-> [lx EXCEPT !.unicodeRuneBytesCounter = @ + 1,
                           !.state = IF lx.unicodeRuneBytesCounter + 1 = 4
                                     THEN "String" ELSE @],
          err |-> ""]

processStateUnicodeRune(lx, c) ==
    IF ~IsHexDigit(c)
    THEN [l |-> lx, err |-> "invalid hex digit"]
    ELSE [l |-> [lx EXCEPT !.unicodeRuneBytesCounter = @ + 1,
                           !.state = IF lx.unicodeRuneBytesCounter + 1 = 4
                                     THEN "String" ELSE @],
          err |-> ""]

\* processStateNumber that ends the number at a sign as at a delimiter
processStateNumberEndsAtSign(lx, c) ==
    IF IsDigit(c) \/ c = Ch.dot
    THEN [l |-> lx, err |-> ""]
    ELSE IF IsDelim(c) \/ IsSpace(c) \/ c \in {Ch.plus, Ch.minus}
    THEN [l |-> [lx EXCEPT !.state = "Skipping", !.currTokenEnd = lx.currPos,
                           !.newTokenFound = TRUE],
          err |-> ""]
    ELSE [l |-> lx, err |-> ""]

\* processStateNumber that ends the number at a '.' as at a delimiter
processStateNumberDotEnds(lx, c) ==
    IF IsDigit(c)
    THEN [l |-> lx, err |-> ""]
    ELSE IF IsDelim(c) \/ IsSpace(c) \/ c = Ch.dot
    THEN [l |-> [lx EXCEPT !.state = "Skipping", !.currTokenEnd = lx.currPos,
                           !.newTokenFound = TRUE],
          err |-> ""]
    ELSE [l |-> lx, err |-> ""]

processStateNumber(lx, c) ==
    IF IsDigit(c) \/ c = Ch.dot
    THEN [l |-> lx, err |-> ""]
    ELSE IF IsDelim(c) \/ IsSpace(c)
    THEN [l |-> [lx EXCEPT !.state = "Skipping", !.currTokenEnd = lx.currPos,
                           !.newTokenFound = TRUE],
          err |-> ""]
    ELSE [l |-> lx, err |-> ""]

processStateNull(lx, c) ==
    LET currPositionInToken == lx.currPos - lx.currTokenStart
    IN  IF currPositionInToken = Len(LiteralNull)
        THEN [l |-> [lx EXCEPT !.state = "Skipping", !.currTokenEnd = lx.currPos,
                               !.newTokenFound = TRUE],
              err |-> ""]
        ELSE IF currPositionInToken > Len(LiteralNull)
        THEN [l |-> lx, err |-> "panic: index out of range"]
        ELSE IF ToLower(c) # At(LiteralNull, currPositionInToken)
        THEN [l |-> lx, err |-> "invalid literal in null"]
        ELSE [l |-> lx, err |-> ""]

\* processStateBool that takes any byte for the next letter of the literal
processStateBoolAnyByte(lx, c) ==
    LET firstCharOfToken == ToLower(At(lx.buf, lx.currTokenStart))
        currPositionInToken == lx.currPos - lx.currTokenStart
        expectedToken == IF firstCharOfToken = Ch.t THEN LiteralTrue ELSE LiteralFalse
    IN  IF currPositionInToken = Len(expectedToken)
        THEN [l |-> [lx EXCEPT !.state = "Skipping", !.currTokenEnd = lx.currPos,
                               !.newTokenFound = TRUE],
              err |-> ""]
        ELSE [l |-> lx, err |-> ""]

processStateBool(lx, c) ==
    LET firstCharOfToken == ToLower(At(lx.buf, lx.currTokenStart))
        currPositionInToken == lx.currPos - lx.currTokenStart
        expectedToken == IF firstCharOfToken = Ch.t THEN LiteralTrue
                         ELSE IF firstCharOfToken = Ch.f THEN LiteralFalse
                         ELSE <<>>
    IN  IF currPositionInToken = Len(expectedToken)
        THEN [l |-> [lx EXCEPT !.state = "Skipping", !.currTokenEnd = lx.currPos,
                               !.newTokenFound = TRUE],
              err |-> ""]
        ELSE IF currPositionInToken > Len(expectedToken)
        THEN [l |-> lx, err |-> "panic: index out of range"]
        ELSE IF ToLower(c) # At(expectedToken, currPositionInToken)
        THEN [l |-> lx, err |-> "invalid literal in bool"]
        ELSE [l |-> lx, err |-> ""]

feed(lx, c) ==
    IF lx.state = "Skipping" THEN processStateSkipping(lx, c)
    ELSE IF lx.state = "String" THEN processStateString(lx, c)
    ELSE IF lx.state = "PendingEscapedSymbol" THEN processStatePendingEscapedSymbol(lx, c)
    ELSE IF lx.state = "UnicodeRune" THEN processStateUnicodeRune(lx, c)
    ELSE IF lx.state = "Number" THEN processStateNumber(lx, c)
    ELSE IF lx.state = "Bool" THEN processStateBool(lx, c)
    ELSE IF lx.state = "Null" THEN processStateNull(lx, c)
    ELSE [l |-> lx, err |-> ""]

(* What a token call returns: a token (t its type, v its value) with a nil *)
(* error, or an error.  A value is a sequence: the bytes of a string, the  *)
(* real <<neg, m, e>> of a number, <<1>> or <<0>> for true or false, the   *)
(* byte of a delimiter, <<>> for null.                                     *)
TokenGeneric(t, v) == [t |-> t, v |-> v, err |-> ""]

Failure(e) == [t |-> "", v |-> <<>>, err |-> e]

EOF == Failure("EOF")

\* the range of the buffer the string token is unescaped in
currTokenBody(lx) == Slice(lx.buf, lx.currTokenStart + 1, lx.currTokenEnd)

\* currTokenAsUnsafeString that unescapes a copy and leaves the buffer alone
currTokenAsUnsafeStringCopy(lx) ==
    LET un == UnescapeBytesInplace(currTokenBody(lx))
    IN  [l |-> lx,
         res |-> IF un.err # "" THEN Failure(un.err) ELSE TokenGeneric("string", un.res)]

\* the lexer after the in-place unescape, and the string or the error
currTokenAsUnsafeString(lx) ==
    LET un == UnescapeBytesInplace(currTokenBody(lx))
    IN  [l |-> [lx EXCEPT !.buf = WriteAt(@, lx.currTokenStart + 1, un.input)],
         res |-> IF un.err # "" THEN Failure(un.err) ELSE TokenGeneric("string", un.res)]

currTokenAsNumber(lx) ==
    LET n == ParseFloat(Slice(lx.buf, lx.currTokenStart, lx.currTokenEnd))
    IN  IF n.ok THEN TokenGeneric("number", n.v)
        ELSE Failure("could not convert to float64")

currTokenAsBool(lx) ==
    IF ToLower(At(lx.buf, lx.currTokenStart)) = Ch.t THEN TokenGeneric("bool", <<1>>)
    ELSE IF ToLower(At(lx.buf, lx.currTokenStart)) = Ch.f THEN TokenGeneric("bool", <<0>>)
    ELSE Failure("could not convert to bool")

currToken(lx) ==
    IF lx.currTokenType = "delim"
    THEN [l |-> lx, res |-> TokenGeneric("delim", <<At(lx.buf, lx.currTokenStart)>>)]
    ELSE IF lx.currTokenType = "string" THEN currTokenAsUnsafeString(lx)
    ELSE IF lx.currTokenType = "number"
    THEN [l |-> lx, res |-> currTokenAsNumber(lx)]
    ELSE IF lx.currTokenType = "bool"
    THEN [l |-> lx, res |-> currTokenAsBool(lx)]
    ELSE [l |-> lx, res |-> TokenGeneric("null", <<>>)]

(* The reader: data are the bytes of the source, off how many were read.   *)
(* A Read gives at most max bytes (0: as many as asked for); the end is    *)
(* told with the last bytes (dataErr) or by a Read of its own; at offset   *)
(* failAt a Read gives the error fail and no bytes, every time (sticky)    *)
(* or once.  strings.NewReader is the reader with no limit, the end told   *)
(* on its own, and no failure.                                             *)

\* how many bytes a Read into k > 0 bytes gives: what is asked for, unless
\* the reader gives no more at once, or the source ends or fails before
ReadCount(rd, k) ==
    Min(Min(k, IF rd.max > 0 THEN rd.max ELSE k),
        Min(Len(rd.data) - rd.off,
            IF rd.failAt > rd.off THEN rd.failAt - rd.off ELSE Len(rd.data) - rd.off))

\* r.Read(p) with len(p) = k > 0
Read(rd, k) ==
    IF rd.failAt = rd.off
    THEN [n |-> 0, err |-> rd.fail,
          r |-> IF rd.sticky THEN rd ELSE [rd EXCEPT !.failAt = -1]]
    ELSE IF Len(rd.data) = rd.off THEN [n |-> 0, err |-> "EOF", r |-> rd]
    ELSE [n |-> ReadCount(rd, k),
          err |-> IF rd.dataErr /\ rd.off + ReadCount(rd, k) = Len(rd.data)
                  THEN "EOF" ELSE "",
          r |-> [rd EXCEPT !.off = @ + ReadCount(rd, k)]]

\* the error io.ReadAtLeast returns when a Read gave the error err with n of
\* the k bytes read
ReadAtLeastErr(err, n, k) ==
    IF n >= k THEN ""
    ELSE IF n > 0 /\ err = "EOF" THEN "ErrUnexpectedEOF"
    ELSE err

\* io.ReadAtLeast(rd, p, len(p)) with n bytes of the k read: Read until p
\* is full or a Read gives an error; ReadAtLeastGot goes on after a Read
RECURSIVE ReadAtLeast(_, _, _)
RECURSIVE ReadAtLeastGot(_, _, _)
ReadAtLeastGot(got, k, n) ==
    IF got.err = "" THEN ReadAtLeast(got.r, k, n + got.n)
    ELSE [n |-> n + got.n, err |-> ReadAtLeastErr(got.err, n + got.n, k), r |-> got.r]

ReadAtLeast(rd, k, n) ==
    IF n >= k THEN [n |-> n, err |-> "", r |-> rd]
    ELSE ReadAtLeastGot(Read(rd, k - n), k, n)

\* what io.ReadFull gives: the bytes read are those of the source from rd.off
ReadFullResult(rd, got) ==
    [n |-> got.n,
     bytes |-> Slice(rd.data, rd.off, rd.off + got.n),
     err |-> got.err,
     r |-> got.r]

\* io.ReadFull that is content with one Read
ReadFullOneRead(rd, k) ==
    IF k = 0 THEN ReadFullResult(rd, [n |-> 0, err |-> "", r |-> rd])
    ELSE ReadFullResult(rd, [n |-> Read(rd, k).n,
                             err |-> ReadAtLeastErr(Read(rd, k).err, Read(rd, k).n, k),
                             r |-> Read(rd, k).r])

(* io.ReadFull(rd, p) with len(p) = k reads until p is full or the source  *)
(* ends or fails: n bytes, and io.EOF when it read none, and               *)
(* io.ErrUnexpectedEOF when it read fewer than k, before the end.          *)
ReadFull(rd, k) == ReadFullResult(rd, ReadAtLeast(rd, k, 0))

\* fetchKeepToken that never makes a larger buffer
fetchKeepTokenNeverGrows(lx) ==
    IF lx.state # "Skipping" /\ lx.state # "Idle"
    THEN LET currTokenBytesParsed == lx.currPos - lx.currTokenStart
             src == Slice(lx.buf, lx.currTokenStart, Len(lx.buf))
         IN  [lx EXCEPT !.buf = WriteAt(lx.buf, 0, src),
                        !.currTokenStart = 0,
                        !.currPos = currTokenBytesParsed]
    ELSE [lx EXCEPT !.currPos = 0]

\* fetchKeepToken with the copy of the parsed part forgotten when the
\* buffer is doubled
fetchKeepTokenNoCopy(lx) ==
    IF lx.state # "Skipping" /\ lx.state # "Idle"
    THEN LET currTokenBytesParsed == lx.currPos - lx.currTokenStart
             grow == currTokenBytesParsed >= lx.currTokenStart
             src == Slice(lx.buf, lx.currTokenStart, Len(lx.buf))
         IN  [lx EXCEPT !.buf = IF grow THEN Zeros(2 * Len(lx.buf))
                                ELSE WriteAt(lx.buf, 0, src),
                        !.currTokenStart = 0,
                        !.currPos = currTokenBytesParsed]
    ELSE [lx EXCEPT !.currPos = 0]

\* fetchKeepToken that copies the token in progress from one byte too far
fetchKeepTokenOffByOne(lx) ==
    IF lx.state # "Skipping" /\ lx.state # "Idle"
    THEN LET currTokenBytesParsed == lx.currPos - lx.currTokenStart
             dstBuf == IF currTokenBytesParsed >= lx.currTokenStart
                       THEN Zeros(2 * Len(lx.buf))
                       ELSE lx.buf
             src == Slice(lx.buf, lx.currTokenStart + 1, Len(lx.buf))
         IN  [lx EXCEPT !.buf = WriteAt(dstBuf, 0, src),
                        !.currTokenStart = 0,
                        !.currPos = currTokenBytesParsed]
    ELSE [lx EXCEPT !.currPos = 0]

\* fetchKeepToken that doubles the buffer at every refill
fetchKeepTokenAlwaysGrows(lx) ==
    IF lx.state # "Skipping" /\ lx.state # "Idle"
    THEN LET currTokenBytesParsed == lx.currPos - lx.currTokenStart
             dstBuf == Zeros(2 * Len(lx.buf))
             src == Slice(lx.buf, lx.currTokenStart, Len(lx.buf))
         IN  [lx EXCEPT !.buf = WriteAt(dstBuf, 0, src),
                        !.currTokenStart = 0,
                        !.currPos = currTokenBytesParsed]
    ELSE [lx EXCEPT !.currPos = 0, !.buf = Zeros(2 * Len(lx.buf))]

\* fetchKeepToken that moves the token and leaves currTokenStart where it was
fetchKeepTokenStartKept(lx) ==
    IF lx.state # "Skipping" /\ lx.state # "Idle"
    THEN LET currTokenBytesParsed == lx.currPos - lx.currTokenStart
             dstBuf == IF currTokenBytesParsed >= lx.currTokenStart
                       THEN Zeros(2 * Len(lx.buf))
                       ELSE lx.buf
             src == Slice(lx.buf, lx.currTokenStart, Len(lx.buf))
         IN  [lx EXCEPT !.buf = WriteAt(dstBuf, 0, SubSeq(src, 1, Min(Len(src), Len(dstBuf)))),
                        !.currPos = currTokenBytesParsed]
    ELSE [lx EXCEPT !.currPos = 0]

\* fetchKeepToken that doubles the buffer only when the scanned part of the
\* token is longer than what is before it
fetchKeepTokenStrictThreshold(lx) ==
    IF lx.state # "Skipping" /\ lx.state # "Idle"
    THEN LET currTokenBytesParsed == lx.currPos - lx.currTokenStart
             dstBuf == IF currTokenBytesParsed > lx.currTokenStart
                       THEN Zeros(2 * Len(lx.buf))
                       ELSE lx.buf
             src == Slice(lx.buf, lx.currTokenStart, Len(lx.buf))
         IN  [lx EXCEPT !.buf = WriteAt(dstBuf, 0, SubSeq(src, 1, Min(Len(src), Len(dstBuf)))),
                        !.currTokenStart = 0,
                        !.currPos = currTokenBytesParsed]
    ELSE [lx EXCEPT !.currPos = 0]

\* the first part of fetchNewData: the token in progress is moved to the
\* start of the buffer, which is doubled when the token fills half of it
fetchKeepToken(lx) ==
    IF lx.state # "Skipping" /\ lx.state # "Idle"
    THEN LET currTokenBytesParsed == lx.currPos - lx.currTokenStart
             dstBuf == IF currTokenBytesParsed >= lx.currTokenStart
                       THEN Zeros(2 * Len(lx.buf))
                       ELSE lx.buf
             src == Slice(lx.buf, lx.currTokenStart, Len(lx.buf))
         IN  [lx EXCEPT !.buf = WriteAt(dstBuf, 0, SubSeq(src, 1, Min(Len(src), Len(dstBuf)))),
                        !.currTokenStart = 0,
                        !.currPos = currTokenBytesParsed]
    ELSE [lx EXCEPT !.currPos = 0]

\* fmt.Errorf("could not fetch new data: %w", err) for the errors of the
\* sources of this model
Errorf(msg, cause) ==
    IF msg = "could not fetch new data" /\ cause = "timeout"
    THEN "could not fetch new data: timeout"
    ELSE IF msg = "could not fetch new data" /\ cause = "closed pipe"
    THEN "could not fetch new data: closed pipe"
    ELSE msg

\* fetchNewData that takes an error of the source for the end of the stream
fetchNewDataErrorEndsStream(lx, rd) ==
    LET kept == fetchKeepToken(lx)
        got == ReadFull(rd, Len(kept.buf) - kept.currPos)
        filled == WriteAt(kept.buf, kept.currPos, got.bytes)
    IN  IF got.err # ""
        THEN [l |-> [kept EXCEPT !.readingFinished = TRUE,
                                 !.buf = SubSeq(filled, 1, kept.currPos + got.n)],
              r |-> got.r, err |-> ""]
        ELSE [l |-> [kept EXCEPT !.buf = filled], r |-> got.r, err |-> ""]

fetchNewData(lx, rd) ==
    LET kept == fetchKeepToken(lx)
        got == ReadFull(rd, Len(kept.buf) - kept.currPos)
        filled == WriteAt(kept.buf, kept.currPos, got.bytes)
    IN  IF got.err = "EOF" \/ got.err = "ErrUnexpectedEOF"
        THEN [l |-> [kept EXCEPT !.readingFinished = TRUE,
                                 !.buf = SubSeq(filled, 1, kept.currPos + got.n)],
              r |-> got.r, err |-> ""]
        ELSE IF got.err # ""
        THEN [l |-> [kept EXCEPT !.buf = filled], r |-> got.r,
              err |-> Errorf("could not fetch new data", got.err)]
        ELSE [l |-> [kept EXCEPT !.buf = filled], r |-> got.r, err |-> ""]

\* shutdown that returns io.EOF whatever the state
shutdownAlwaysEOF(lx) == EOF

shutdown(lx) ==
    IF lx.state # "Skipping" THEN Failure("unexpected EOF") ELSE EOF

----------------------------------------------------------------------------
(* The inputs.  An input is put together from at most MaxChunks fragments, *)
(* or is one of the inputs of the repository's tests and documentation.    *)

\* the pieces inputs are put together from
Fragments ==
    {
      \* "
      <<34>>,
      \* z
      <<122>>,
      \* \
      <<92>>,
      \* n
      <<110>>,
      \*  
      <<32>>,
      \* ,
      <<44>>,
      \* 1
      <<49>>,
      \* .
      <<46>>,
      \* \u00e9
      <<92, 117, 48, 48, 101, 57>>,
      \* \ud83d
      <<92, 117, 100, 56, 51, 100>>,
      \* \udca9
      <<92, 117, 100, 99, 97, 57>>,
      \* true
      <<116, 114, 117, 101>>
    }

RECURSIVE Concats(_)
Concats(k) ==
    IF k = 0 THEN {<<>>}
    ELSE LET shorter == Concats(k - 1)
         IN  shorter \cup {x \o f : x \in shorter, f \in Fragments}

\* inputs of TestJSONLexer, TestJSONLexerFails and the README, and some like them
Scenarios ==
    {
      \* {"hello":"world"}
      <<123, 34, 104, 101, 108, 108, 111, 34, 58, 34, 119, 111, 114, 108, 100, 34, 125>>,
      \* {"ua": "\"SomeUA\""}
      <<123, 34, 117, 97, 34, 58, 32, 34, 92, 34, 83, 111, 109, 101, 85, 65, 92, 34, 34, 125>>,
      \* {"hello
      <<123, 34, 104, 101, 108, 108, 111>>,
      \* {"hello":"\u12"}
      <<123, 34, 104, 101, 108, 108, 111, 34, 58, 34, 92, 117, 49, 50, 34, 125>>,
      \* {"hello":"\a"}
      <<123, 34, 104, 101, 108, 108, 111, 34, 58, 34, 92, 97, 34, 125>>,
      \* {"emoji": "\uD83D\uDCA9"}
      <<123, 34, 101, 109, 111, 106, 105, 34, 58, 32, 34, 92, 117, 68, 56, 51, 68, 92, 117, 68, 67, 65, 57, 34, 125>>,
      \* {"a": true, "b": False, "c": null}
      <<123, 34, 97, 34, 58, 32, 116, 114, 117, 101, 44, 32, 34, 98, 34, 58, 32, 70, 97, 108, 115, 101, 44, 32, 34, 99, 34, 58, 32, 110, 117, 108, 108, 125>>,
      \* {"delta": 3.1.4, "x": 1}
      <<123, 34, 100, 101, 108, 116, 97, 34, 58, 32, 51, 46, 49, 46, 52, 44, 32, 34, 120, 34, 58, 32, 49, 125>>,
      \* {"d1": .314, "d2": 314.}
      <<123, 34, 100, 49, 34, 58, 32, 46, 51, 49, 52, 44, 32, 34, 100, 50, 34, 58, 32, 51, 49, 52, 46, 125>>,
      \* {"x": tru}
      <<123, 34, 120, 34, 58, 32, 116, 114, 117, 125>>,
      \* {"x": Nuii}
      <<123, 34, 120, 34, 58, 32, 78, 117, 105, 105, 125>>,
      \* {"x": "\uD83D world"} "y"
      <<123, 34, 120, 34, 58, 32, 34, 92, 117, 68, 56, 51, 68, 32, 119, 111, 114, 108, 100, 34, 125, 32, 34, 121, 34>>,
      \* {"x": "\uD83D\uFCA9"}
      <<123, 34, 120, 34, 58, 32, 34, 92, 117, 68, 56, 51, 68, 92, 117, 70, 67, 65, 57, 34, 125>>,
      \* {"delta": 3.14, "t": -52, "d": 1.57e+10}
      <<123, 34, 100, 101, 108, 116, 97, 34, 58, 32, 51, 46, 49, 52, 44, 32, 34, 116, 34, 58, 32, 45, 53, 50, 44, 32, 34, 100, 34, 58, 32, 49, 46, 53, 55, 101, 43, 49, 48, 125>>,
      \* [1,2]
      <<91, 49, 44, 50, 93>>,
      \* true
      <<116, 114, 117, 101>>,
      \* 12
      <<49, 50>>
    }

HelloWorld == <<123, 34, 104, 101, 108, 108, 111, 34, 58, 34, 119, 111, 114, 108, 100, 34, 125>>

Inputs == Concats(MaxChunks) \cup Scenarios

(* Rendered inputs: a sequence of JSON values, each written out as text,   *)
(* with a separator between two values and optionally before the first    *)
(* and after the last.  tok is the token the text of a value stands for.   *)
Values ==
    {
      \* ""
      [text |-> <<34, 34>>,
       tok |-> TokenGeneric("string", <<>>)],
      \* "\n\""
      [text |-> <<34, 92, 110, 92, 34, 34>>,
       tok |-> TokenGeneric("string", <<10, 34>>)],
      \* "\u00e9"
      [text |-> <<34, 92, 117, 48, 48, 101, 57, 34>>,
       tok |-> TokenGeneric("string", <<195, 169>>)],
      \* "\ud83d\udca9"
      [text |-> <<34, 92, 117, 100, 56, 51, 100, 92, 117, 100, 99, 97, 57, 34>>,
       tok |-> TokenGeneric("string", <<240, 159, 146, 169>>)],
      \* 10
      [text |-> <<49, 48>>,
       tok |-> TokenGeneric("number", <<0, 1, 1>>)],
      \* -1.5e1
      [text |-> <<45, 49, 46, 53, 101, 49>>,
       tok |-> TokenGeneric("number", <<1, 15, 0>>)],
      \* true
      [text |-> <<116, 114, 117, 101>>,
       tok |-> TokenGeneric("bool", <<1>>)],
      \* False
      [text |-> <<70, 97, 108, 115, 101>>,
       tok |-> TokenGeneric("bool", <<0>>)],
      \* null
      [text |-> <<110, 117, 108, 108>>,
       tok |-> TokenGeneric("null", <<>>)]
    }

\* what may stand between two values
Separators == {<<32>>, <<44>>}

\* what may stand before the first value
Leads == {<<>>, <<91>>}

\* what may stand after the last value
Trails == {<<>>, <<32>>}

RECURSIVE ValueLists(_)
ValueLists(k) ==
    IF k = 0 THEN {<<>>}
    ELSE LET shorter == ValueLists(k - 1)
         IN  shorter \cup {Append(x, v) : x \in shorter, v \in Values}

RECURSIVE SeparatorLists(_)
SeparatorLists(k) ==
    IF k <= 0 THEN {<<>>}
    ELSE {Append(x, sp) : x \in SeparatorLists(k - 1), sp \in Separators}

\* the text of the values vs with seps[i] after the i-th of them
RECURSIVE Render(_, _, _)
Render(vs, seps, i) ==
    IF i > Len(vs) THEN <<>>
    ELSE vs[i].text \o (IF i < Len(vs) THEN seps[i] ELSE <<>>) \o Render(vs, seps, i + 1)

Rendered ==
    {[data |-> ld \o Render(vs, seps, 1) \o tr,
      toks |-> [i \in 1..Len(vs) |-> vs[i].tok],
      closed |-> tr # <<>> \/ vs = <<>> \/ vs[Len(vs)].tok.t = "string"] :
        <<vs, seps, ld, tr>> \in
            {<<vs, seps, ld, tr>> \in
                ValueLists(MaxValues) \X SeparatorLists(MaxValues - 1) \X Leads \X Trails :
                    Len(seps) = Len(vs) - 1 \/ (vs = <<>> /\ seps = <<>>)}}

----------------------------------------------------------------------------
(* The state machine.  A run constructs a lexer over the input             *)
(* (NewJSONLexer, SetBufSize) and calls TokenFast again and again; a call  *)
(* is the step that enters it and then one step for each turn of its loop. *)
(* When a run has finished the same input is lexed again by a new lexer    *)
(* with the next buffer size.                                              *)

(* Token() is TokenFast() and a projection of its result: the error as it  *)
(* is and no value, or the value alone, typed as Go types it: nil for      *)
(* null, the byte of a delimiter, the float64, the string, the bool.       *)
Nil == [kind |-> "nil", v |-> <<>>]

\* Token() that returns the zero delimiter byte for a null
TokenNullAsDelim(res) ==
    IF res.err # "" THEN [val |-> Nil, err |-> res.err]
    ELSE IF res.t = "null" THEN [val |-> [kind |-> "byte", v |-> <<0>>], err |-> ""]
    ELSE [val |-> [kind |-> IF res.t = "delim" THEN "byte"
                            ELSE IF res.t = "number" THEN "float64" ELSE res.t,
                   v |-> res.v],
          err |-> ""]

Token(res) ==
    IF res.err # "" THEN [val |-> Nil, err |-> res.err]
    ELSE IF res.t = "null" THEN [val |-> Nil, err |-> ""]
    ELSE IF res.t = "delim" THEN [val |-> [kind |-> "byte", v |-> res.v], err |-> ""]
    ELSE IF res.t = "number" THEN [val |-> [kind |-> "float64", v |-> res.v], err |-> ""]
    ELSE IF res.t = "string" THEN [val |-> [kind |-> "string", v |-> res.v], err |-> ""]
    ELSE IF res.t = "bool" THEN [val |-> [kind |-> "bool", v |-> res.v], err |-> ""]
    ELSE [val |-> Nil, err |-> "panic: unknown token type"]

\* the call returns: TokenFast's result, and what Token() makes of it
Returns(res) == out' = Append(out, res) /\ ret' = Append(ret, Token(res))

\* the call goes on
NoReturn == out' = out /\ ret' = ret

\* strings.NewReader
NewReader(data) ==
    [data |-> data, off |-> 0, max |-> 0, dataErr |-> FALSE,
     failAt |-> -1, fail |-> "", sticky |-> FALSE]

NoExpect == [known |-> FALSE, toks |-> <<>>, closed |-> FALSE]

\* no call of UnescapeBytesInplace on its own is going on
NoUnescape ==
    [u |-> NewBytesUnescaper(<<>>), orig |-> <<>>, pc |-> "idle", res |-> <<>>, err |-> ""]

\* how many of the results rs are io.EOF or an error
RECURSIVE TailCount(_)
TailCount(rs) ==
    IF rs = <<>> THEN 0
    ELSE (IF rs[Len(rs)].err # "" THEN 1 ELSE 0) + TailCount(SubSeq(rs, 1, Len(rs) - 1))

Running == TailCount(out) < MaxTail

Done == pc = "ready" /\ ~Running

Start(data, n, ex) ==
    /\ l = SetBufSize(NewJSONLexer, n)
    /\ r = NewReader(data)
    /\ pc = "ready"
    /\ out = <<>>
    /\ ret = <<>>
    /\ bufSize = n
    /\ prevOut = <<>>
    /\ expect = ex
    /\ unesc = NoUnescape

Init == \E data \in Inputs : Start(data, 1, NoExpect)

InitValues ==
    \E rn \in Rendered :
        Start(rn.data, 1, [known |-> TRUE, toks |-> rn.toks, closed |-> rn.closed])

\* the spellings of a lower-case literal in upper and lower case
RECURSIVE CaseVariants(_)
CaseVariants(lit) ==
    IF lit = <<>> THEN {<<>>}
    ELSE {<<c>> \o rest : c \in {Head(lit), Head(lit) - 32},
                          rest \in CaseVariants(Tail(lit))}

\* the bytes a literal is followed by: whitespace and the delimiters
Terminators == {9, 10, 13, 32} \cup {c \in 0..127 : IsDelim(c)}

\* a literal in some spelling and the byte after it, with the token expected
LiteralInputs ==
    {[data |-> w \o <<c>>, toks |-> <<TokenGeneric("bool", <<1>>)>>] :
        w \in CaseVariants(LiteralTrue), c \in Terminators}
    \cup
    {[data |-> w \o <<c>>, toks |-> <<TokenGeneric("bool", <<0>>)>>] :
        w \in CaseVariants(LiteralFalse), c \in Terminators}
    \cup
    {[data |-> w \o <<c>>, toks |-> <<TokenGeneric("null", <<>>)>>] :
        w \in CaseVariants(LiteralNull), c \in Terminators}

\* bytes put in the place of a letter of a literal
WrongBytes == {32, 34, 85, 105, 111, 125}

\* the spellings of a literal with one letter after the first replaced by a
\* byte that is not that letter in either case
BrokenVariants(lit) ==
    {[x.w EXCEPT ![x.i] = x.c] :
        x \in {y \in [w : CaseVariants(lit), i : 2..Len(lit), c : WrongBytes] :
                   y.c \notin {lit[y.i], lit[y.i] - 32}}}

BrokenLiteralInputs ==
    {w \o <<Ch.comma>> : w \in BrokenVariants(LiteralTrue) \cup BrokenVariants(LiteralFalse)
                                 \cup BrokenVariants(LiteralNull)}

\* the input is a literal, well spelled or broken
InitLiterals ==
    \/ \E li \in LiteralInputs :
          Start(li.data, 1, [known |-> TRUE, toks |-> li.toks, closed |-> TRUE])
    \/ \E data \in BrokenLiteralInputs : Start(data, 1, NoExpect)

\* the pieces number texts are put together from: 0 1 5 + - . e E *
NumberFragments == {48, 49, 53, 43, 45, 46, 101, 69, 42}

\* the texts of at most k pieces
RECURSIVE NumberConcats(_)
NumberConcats(k) ==
    IF k = 0 THEN {<<>>}
    ELSE NumberConcats(k - 1)
           \cup {Append(w, c) : w \in NumberConcats(k - 1), c \in NumberFragments}

\* number texts of the repository's tests: the invalid ones, then valid ones
NumberScenarios ==
    {
      \* 3.1.4
      <<51, 46, 49, 46, 52>>,
      \* 5-2
      <<53, 45, 50>>,
      \* 1.57+10
      <<49, 46, 53, 55, 43, 49, 48>>,
      \* 1.2e*10
      <<49, 46, 50, 101, 42, 49, 48>>,
      \* 1.57+e10
      <<49, 46, 53, 55, 43, 101, 49, 48>>,
      \* 1.210-e
      <<49, 46, 50, 49, 48, 45, 101>>,
      \* 3.14
      <<51, 46, 49, 52>>,
      \* -52
      <<45, 53, 50>>,
      \* 1.57e+10
      <<49, 46, 53, 55, 101, 43, 49, 48>>,
      \* 1e400
      <<49, 101, 52, 48, 48>>,
      \* 1e-400
      <<49, 101, 45, 52, 48, 48>>,
      \* +Inf
      <<43, 73, 110, 102>>,
      \* 0
      <<48>>
    }

\* a text that opens a number, and the whitespace or delimiter after it
NumberInputs ==
    {w \o <<c>> : w \in {x \in NumberConcats(MaxNumberChunks) \cup NumberScenarios :
                              x # <<>> /\ CanAppearInNumber(x[1])},
                  c \in {Ch.space, Ch.rbrace}}

InitNumbers == \E data \in NumberInputs : Start(data, 1, NoExpect)

\* TokenFast up to its loop: the first call fetches and leaves Idle
TokenFast ==
    /\ pc = "ready"
    /\ Running
    /\ LET f == fetchNewData(l, r)
       IN  IF l.state # "Idle"
           THEN pc' = "loop" /\ UNCHANGED <<l, r, out, ret>>
           ELSE IF f.err # ""
           THEN /\ l' = f.l
                /\ r' = f.r
                /\ Returns(Failure(f.err))
                /\ pc' = "ready"
           ELSE /\ l' = [f.l EXCEPT !.state = "Skipping"]
                /\ r' = f.r
                /\ pc' = "loop"
                /\ NoReturn
    /\ UNCHANGED <<bufSize, prevOut, expect, unesc>>

\* LoopShutdown that rewinds the read position for the call after
LoopShutdownRewind ==
    /\ pc = "loop"
    /\ l.currPos >= Len(l.buf)
    /\ l.readingFinished
    /\ Returns(shutdown(l))
    /\ pc' = "ready"
    /\ l' = [l EXCEPT !.currPos = 0]
    /\ UNCHANGED <<r, bufSize, prevOut, expect, unesc>>

\* the loop with the buffer used up and the source finished: shutdown
LoopShutdown ==
    /\ pc = "loop"
    /\ l.currPos >= Len(l.buf)
    /\ l.readingFinished
    /\ Returns(shutdown(l))
    /\ pc' = "ready"
    /\ UNCHANGED <<l, r, bufSize, prevOut, expect, unesc>>

\* the loop with the buffer used up and the source not finished: a refill
LoopFetch ==
    /\ pc = "loop"
    /\ l.currPos >= Len(l.buf)
    /\ ~l.readingFinished
    /\ LET f == fetchNewData(l, r)
       IN  /\ l' = f.l
           /\ r' = f.r
           /\ IF f.err # ""
              THEN Returns(Failure(f.err)) /\ pc' = "ready"
              ELSE NoReturn /\ pc' = "loop"
    /\ UNCHANGED <<bufSize, prevOut, expect, unesc>>

\* LoopFeed that leaves the read position at the byte after a literal
LoopFeedKeepsByteAfterLiteral ==
    /\ pc = "loop"
    /\ l.currPos < Len(l.buf)
    /\ LET fed == feed(l, At(l.buf, l.currPos))
           moved == [fed.l EXCEPT !.currPos = IF l.state \in {"Bool", "Null"}
                                                  /\ fed.l.newTokenFound
                                               THEN @ ELSE @ + 1]
           tok == currToken([moved EXCEPT !.newTokenFound = FALSE])
       IN  IF fed.err # ""
           THEN l' = fed.l /\ Returns(Failure(fed.err)) /\ pc' = "ready"
           ELSE IF moved.newTokenFound
           THEN l' = tok.l /\ Returns(tok.res) /\ pc' = "ready"
           ELSE l' = moved /\ NoReturn /\ pc' = "loop"
    /\ UNCHANGED <<r, bufSize, prevOut, expect, unesc>>

\* LoopFeed that leaves the read position at the byte that ended a number
LoopFeedKeepsTerminator ==
    /\ pc = "loop"
    /\ l.currPos < Len(l.buf)
    /\ LET fed == feed(l, At(l.buf, l.currPos))
           moved == [fed.l EXCEPT !.currPos = IF l.state = "Number" /\ fed.l.newTokenFound
                                               THEN @ ELSE @ + 1]
           tok == currToken([moved EXCEPT !.newTokenFound = FALSE])
       IN  IF fed.err # ""
           THEN l' = fed.l /\ Returns(Failure(fed.err)) /\ pc' = "ready"
           ELSE IF moved.newTokenFound
           THEN l' = tok.l /\ Returns(tok.res) /\ pc' = "ready"
           ELSE l' = moved /\ NoReturn /\ pc' = "loop"
    /\ UNCHANGED <<r, bufSize, prevOut, expect, unesc>>

\* the loop with a byte in the buffer: feed it, and return the token it ends
LoopFeed ==
    /\ pc = "loop"
    /\ l.currPos < Len(l.buf)
    /\ LET fed == feed(l, At(l.buf, l.currPos))
           moved == [fed.l EXCEPT !.currPos = @ + 1]
           tok == currToken([moved EXCEPT !.newTokenFound = FALSE])
       IN  IF fed.err # ""
           THEN l' = fed.l /\ Returns(Failure(fed.err)) /\ pc' = "ready"
           ELSE IF moved.newTokenFound
           THEN l' = tok.l /\ Returns(tok.res) /\ pc' = "ready"
           ELSE l' = moved /\ NoReturn /\ pc' = "loop"
    /\ UNCHANGED <<r, bufSize, prevOut, expect, unesc>>

\* the finished run is repeated on the same input with a buffer one larger
Rerun ==
    /\ Done
    /\ bufSize < MaxBufSize
    /\ l' = SetBufSize(NewJSONLexer, bufSize + 1)
    /\ r' = NewReader(r.data)
    /\ pc' = "ready"
    /\ out' = <<>>
    /\ ret' = <<>>
    /\ bufSize' = bufSize + 1
    /\ prevOut' = out
    /\ UNCHANGED <<expect, unesc>>

Next == TokenFast \/ LoopShutdown \/ LoopFetch \/ LoopFeed \/ Rerun

Spec == Init /\ [][Next]_vars

SpecValues == InitValues /\ [][Next]_vars

SpecLiterals == InitLiterals /\ [][Next]_vars

SpecNumbers == InitNumbers /\ [][Next]_vars

----------------------------------------------------------------------------
(* Sources that split their bytes into reads: the run on an input with a   *)
(* buffer size is repeated with each way of splitting.                     *)

\* the most fragments in an input read from a source that splits
MaxSplitChunks == 2

\* the ways a source splits: at most max bytes a Read (0: all asked for), the
\* end told with the last bytes or on its own; the first is strings.NewReader
Splits ==
    <<[max |-> 0, dataErr |-> FALSE], [max |-> 1, dataErr |-> FALSE],
      [max |-> 2, dataErr |-> FALSE], [max |-> 1, dataErr |-> TRUE],
      [max |-> 2, dataErr |-> TRUE], [max |-> 0, dataErr |-> TRUE]>>

\* a reader of data that splits the way sp
SplitReader(data, sp) ==
    [NewReader(data) EXCEPT !.max = sp.max, !.dataErr = sp.dataErr]

\* which of Splits the reader is
SplitIndex ==
    CHOOSE i \in 1..Len(Splits) : Splits[i] = [max |-> r.max, dataErr |-> r.dataErr]

SplitInputs == Concats(MaxSplitChunks) \cup Scenarios

InitSplit ==
    \E data \in SplitInputs, n \in 1..MaxBufSize : Start(data, n, NoExpect)

\* the finished run is repeated on the same input, with the same buffer size,
\* from a source that splits the next way
RerunSplit ==
    /\ Done
    /\ SplitIndex < Len(Splits)
    /\ l' = SetBufSize(NewJSONLexer, bufSize)
    /\ r' = SplitReader(r.data, Splits[SplitIndex + 1])
    /\ pc' = "ready"
    /\ out' = <<>>
    /\ ret' = <<>>
    /\ prevOut' = out
    /\ UNCHANGED <<bufSize, expect, unesc>>

NextSplit == TokenFast \/ LoopShutdown \/ LoopFetch \/ LoopFeed \/ RerunSplit

SpecSplit == InitSplit /\ [][NextSplit]_vars

\* the most fragments of an input of the runs that are followed to their end
MaxRunChunks == 1

InitRuns ==
    \E data \in Concats(MaxRunChunks) \cup Scenarios, n \in 1..MaxBufSize :
        Start(data, n, NoExpect)

\* the program goes on running: a call that is in TokenFast's loop takes
\* the next turn of the loop.  In every state with pc = "loop" one of the
\* three turns can be taken, so this is weak fairness of the turn, with
\* pc = "loop" written in the place of ENABLED
SpecRuns ==
    /\ InitRuns
    /\ [][NextSplit]_vars
    /\ ([]<>(pc # "loop") \/ []<><<LoopShutdown \/ LoopFetch \/ LoopFeed>>_vars)

----------------------------------------------------------------------------
(* Sources that fail: at an offset the source gives an error that is not   *)
(* the end of the stream, once or on every Read from then on.              *)

\* the errors of a failing source
SourceErrors == {"timeout", "closed pipe"}

\* a reader of data that gives at most max bytes a Read and fails at offset at
FailingReader(data, max, at, fail, sticky) ==
    [NewReader(data) EXCEPT !.max = max, !.failAt = at, !.fail = fail, !.sticky = sticky]

\* the most fragments in an input read from a failing source
MaxFailChunks == 1

\* inputs read from a failing source: short ones, and inputs of TestJSONLexer
FailingInputs ==
    Concats(MaxFailChunks) \cup
    {
      \* {"hello":"world"}
      HelloWorld,
      \* {"a": true, "b": False, "c": null}
      <<123, 34, 97, 34, 58, 32, 116, 114, 117, 101, 44, 32, 34, 98, 34,
        58, 32, 70, 97, 108, 115, 101, 44, 32, 34, 99, 34, 58, 32, 110,
        117, 108, 108, 125>>,
      \* {"delta": 3.14, "t": -52, "d": 1.57e+10}
      <<123, 34, 100, 101, 108, 116, 97, 34, 58, 32, 51, 46, 49, 52, 44,
        32, 34, 116, 34, 58, 32, 45, 53, 50, 44, 32, 34, 100, 34, 58, 32,
        49, 46, 53, 55, 101, 43, 49, 48, 125>>,
      \* [1,2]
      <<91, 49, 44, 50, 93>>
    }

StartFailing(data, n, rd) ==
    /\ l = SetBufSize(NewJSONLexer, n)
    /\ r = rd
    /\ pc = "ready"
    /\ out = <<>>
    /\ ret = <<>>
    /\ bufSize = n
    /\ prevOut = <<>>
    /\ expect = NoExpect
    /\ unesc = NoUnescape

InitFailing ==
    \E data \in FailingInputs, n \in 1..MaxBufSize, max \in {0, 1}, fail \in SourceErrors,
       sticky \in BOOLEAN :
        \E at \in 0..Len(data) :
            StartFailing(data, n, FailingReader(data, max, at, fail, sticky))

NextFailing == TokenFast \/ LoopShutdown \/ LoopFetch \/ LoopFeed

SpecFailing == InitFailing /\ [][NextFailing]_vars

----------------------------------------------------------------------------
(* Two inputs with a common prefix: when a call has returned an error at a *)
(* byte, the input is cut after that byte, other bytes are put after it,   *)
(* and the lexer is run on the result with the same buffer size.           *)

Last(rs) == rs[Len(rs)]

\* the offset in the source of the byte at index i of the buffer: from the
\* first fetch on, the buffer ends where the bytes read so far end
AbsPos(i) == r.off - (Len(l.buf) - i)

\* what is put after the byte of the error: nothing, a quote, a space,
\* z" and \u
Suffixes == {<<>>, <<34>>, <<32>>, <<122, 34>>, <<92, 117>>}

\* the last call returned an error at a byte of the input: an error of feed
\* or of the conversion of the token, not the end of the input
ErrorAtByte ==
    /\ pc = "ready"
    /\ out # <<>>
    /\ Last(out).err \notin {"", "EOF", "unexpected EOF"}

\* how many bytes of the source the lexer has been fed when the error is
\* returned: feed's error leaves currPos at the byte it is about, the error
\* of a conversion is returned with currPos past the byte that ended the token
ErrorByte == IF l.state = "Skipping" THEN AbsPos(l.currPos) ELSE AbsPos(l.currPos) + 1

InitPrefix ==
    \E data \in Inputs, n \in 1..MaxBufSize : Start(data, n, NoExpect)

\* the run on the prefix up to the byte of the error and other bytes after it
RerunPrefix ==
    /\ ErrorAtByte
    /\ prevOut = <<>>
    /\ \E suffix \in Suffixes :
          /\ SubSeq(r.data, 1, ErrorByte) \o suffix # r.data
          /\ r' = NewReader(SubSeq(r.data, 1, ErrorByte) \o suffix)
    /\ l' = SetBufSize(NewJSONLexer, bufSize)
    /\ pc' = "ready"
    /\ out' = <<>>
    /\ ret' = <<>>
    /\ prevOut' = out
    /\ UNCHANGED <<bufSize, expect, unesc>>

NextPrefix == TokenFast \/ LoopShutdown \/ LoopFetch \/ LoopFeed \/ RerunPrefix

SpecPrefix == InitPrefix /\ [][NextPrefix]_vars

----------------------------------------------------------------------------
(* Inputs that begin with any byte: the first call meets the byte in state *)
(* Skipping, and a tail follows the byte.                                  *)

\* what follows the first byte: nothing, a space, 1 and a comma, rue and a
\* space, ull and a comma, z and a quote
OpeningInputs ==
    {<<c>> \o tl :
        c \in 0..255,
        tl \in {<<>>, <<32>>, <<49, 44>>, <<114, 117, 101, 32>>, <<117, 108, 108, 44>>,
                <<122, 34>>}}

InitOpening == \E data \in OpeningInputs : Start(data, 1, NoExpect)

SpecOpening == InitOpening /\ [][Next]_vars

----------------------------------------------------------------------------
(* The lexer configured before parsing: a test case carries the flag, and  *)
(* the run begins with the call SetSkipDelims(flag) on the new lexer.      *)

\* the case is a jsonLexerTestCase: its skipDelims, and no output to compare
\* with
StartConfig(data, n, flag) ==
    /\ l = SetBufSize(NewJSONLexer, n)
    /\ r = NewReader(data)
    /\ pc = "config"
    /\ out = <<>>
    /\ ret = <<>>
    /\ bufSize = n
    /\ prevOut = <<>>
    /\ expect = [known |-> FALSE, toks |-> <<>>, closed |-> FALSE, skipDelims |-> flag]
    /\ unesc = NoUnescape

InitConfig ==
    \E data \in Scenarios, n \in 1..MaxBufSize, flag \in BOOLEAN :
        StartConfig(data, n, flag)

\* l.SetSkipDelims(testcase.skipDelims)
SetSkipDelimsCall ==
    /\ pc = "config"
    /\ l' = SetSkipDelims(l, expect.skipDelims)
    /\ pc' = "ready"
    /\ UNCHANGED <<r, out, ret, bufSize, prevOut, expect, unesc>>

NextConfig == SetSkipDelimsCall \/ TokenFast \/ LoopShutdown \/ LoopFetch \/ LoopFeed

SpecConfig == InitConfig /\ [][NextConfig]_vars

----------------------------------------------------------------------------
(* Inputs in which any byte follows a literal: true, false, null, False or *)
(* NULL, then the byte, then a tail.                                       *)

\* what follows the byte: nothing, a space, x and a quote
FollowedInputs ==
    {lit \o <<c>> \o tl :
        lit \in {LiteralTrue, LiteralFalse, LiteralNull, <<70, 97, 108, 115, 101>>,
                 <<78, 85, 76, 76>>},
        c \in 0..255,
        tl \in {<<>>, <<32>>, <<120, 34>>}}

InitFollowed == \E data \in FollowedInputs : Start(data, 1, NoExpect)

SpecFollowed == InitFollowed /\ [][Next]_vars

----------------------------------------------------------------------------
(* UnescapeBytesInplace called on its own, as the repository's tests call  *)
(* it: a step for each turn of doUnescaping's loop, and a step for its     *)
(* return.  An error leaves no result slice (res is <<>> and err is set).  *)

\* the pieces inputs of the unescaper are put together from
UnescapeFragments ==
    {
      \* z
      <<122>>,
      \* u
      <<117>>,
      \*  
      <<32>>,
      \* \n
      <<92, 110>>,
      \* \r
      <<92, 114>>,
      \* \t
      <<92, 116>>,
      \* \b
      <<92, 98>>,
      \* \f
      <<92, 102>>,
      \* \\
      <<92, 92>>,
      \* \/
      <<92, 47>>,
      \* \"
      <<92, 34>>,
      \* \a
      <<92, 97>>,
      \* \
      <<92>>,
      \* \u043
      <<92, 117, 48, 52, 51>>,
      \* \u0000
      <<92, 117, 48, 48, 48, 48>>,
      \* \u00e9
      <<92, 117, 48, 48, 101, 57>>,
      \* \u041F
      <<92, 117, 48, 52, 49, 70>>,
      \* \U20ac
      <<92, 85, 50, 48, 97, 99>>,
      \* \uD83D
      <<92, 117, 68, 56, 51, 68>>,
      \* \uDCA9
      <<92, 117, 68, 67, 65, 57>>,
      \* \ud800
      <<92, 117, 100, 56, 48, 48>>,
      \* \uDBFF
      <<92, 117, 68, 66, 70, 70>>,
      \* \udc00
      <<92, 117, 100, 99, 48, 48>>,
      \* \uDFFF
      <<92, 117, 68, 70, 70, 70>>,
      \* \ufca9
      <<92, 117, 102, 99, 97, 57>>,
      \* \uFFFD
      <<92, 117, 70, 70, 70, 68>>,
      \* \uD801
      <<92, 117, 68, 56, 48, 49>>,
      \* \uDC01
      <<92, 117, 68, 67, 48, 49>>,
      \* \ud9ab
      <<92, 117, 100, 57, 97, 98>>,
      \* \uDe5c
      <<92, 117, 68, 101, 53, 99>>
    }

RECURSIVE UnescapeConcats(_)
UnescapeConcats(k) ==
    IF k = 0 THEN {<<>>}
    ELSE LET shorter == UnescapeConcats(k - 1)
         IN  shorter \cup {x \o f : x \in shorter, f \in UnescapeFragments}

\* inputs of TestUnescapeBytesInplace and TestUnescapeBytesInplaceFails
UnescapeScenarios ==
    {
      \* a
      <<97>>,
      \* hello\nworld
      <<104, 101, 108, 108, 111, 92, 110, 119, 111, 114, 108, 100>>,
      \* hello\\world
      <<104, 101, 108, 108, 111, 92, 92, 119, 111, 114, 108, 100>>,
      \* \"hello world\"
      <<92, 34, 104, 101, 108, 108, 111, 32, 119, 111, 114, 108, 100, 92, 34>>,
      \* hello \u043f\u0440\u0438\u0432\u0435\u0442\u0020\u043c\u0438\u0440 world
      <<104, 101, 108, 108, 111, 32, 92, 117, 48, 52, 51, 102, 92, 117, 48, 52, 52, 48, 92, 117, 48, 52, 51, 56, 92, 117, 48, 52, 51, 50, 92, 117, 48, 52, 51, 53, 92, 117, 48, 52, 52, 50, 92, 117, 48, 48, 50, 48, 92, 117, 48, 52, 51, 99, 92, 117, 48, 52, 51, 56, 92, 117, 48, 52, 52, 48, 32, 119, 111, 114, 108, 100>>,
      \* hello \UD83D\UDCA9 world
      <<104, 101, 108, 108, 111, 32, 92, 85, 68, 56, 51, 68, 92, 85, 68, 67, 65, 57, 32, 119, 111, 114, 108, 100>>,
      \* hello \ud83d\ufca9 world
      <<104, 101, 108, 108, 111, 32, 92, 117, 100, 56, 51, 100, 92, 117, 102, 99, 97, 57, 32, 119, 111, 114, 108, 100>>,
      \* hello \ud83d world
      <<104, 101, 108, 108, 111, 32, 92, 117, 100, 56, 51, 100, 32, 119, 111, 114, 108, 100>>
    }

UnescapeInputs == UnescapeConcats(MaxUnescapeChunks) \cup UnescapeScenarios

\* the hex digits a \u escape is written with in SpecUnicode: 0 7 8 d D e E f F
HexDigitSample == {48, 55, 56, 100, 68, 101, 69, 102, 70}

\* \uXXXX and \UXXXX for every choice of four of these digits
UnicodeInputs ==
    {<<Ch.bslash, x, a, b, c, d>> :
        x \in {Ch.u, Ch.U}, a \in HexDigitSample, b \in HexDigitSample,
        c \in HexDigitSample, d \in HexDigitSample}

StartUnescape(input) ==
    /\ l = NewJSONLexer
    /\ r = NewReader(<<>>)
    /\ pc = "ready"
    /\ out = <<>>
    /\ ret = <<>>
    /\ bufSize = defaultBufSize
    /\ prevOut = <<>>
    /\ expect = NoExpect
    /\ unesc = [u |-> NewBytesUnescaper(input), orig |-> input, pc |-> "loop",
             res |-> <<>>, err |-> ""]

\* the escapes of high surrogates: \uD83D \ud800 \uDBFF
SplitHighs ==
    {<<92, 117, 68, 56, 51, 68>>, <<92, 117, 100, 56, 48, 48>>, <<92, 117, 68, 66, 70, 70>>}

\* what is put between the halves: an ordinary byte (z, space, a quote) or
\* an escape that is no \u (\n, \\, \/, \a)
SplitOrdinary == {<<122>>, <<32>>, <<34>>}

SplitEscapes == {<<92, 110>>, <<92, 92>>, <<92, 47>>, <<92, 97>>}

\* the escapes that follow: low surrogates \uDCA9 \udc00 \uDFFF, and \u00e9
SplitSeconds ==
    {<<92, 117, 68, 67, 65, 57>>, <<92, 117, 100, 99, 48, 48>>,
     <<92, 117, 68, 70, 70, 70>>, <<92, 117, 48, 48, 101, 57>>}

\* a high surrogate, something between, and a second escape, inside text
SplitPairInputs ==
    {lead \o h \o m \o s \o trail :
        lead \in {<<>>, <<97>>}, h \in SplitHighs, m \in SplitOrdinary \cup SplitEscapes,
        s \in SplitSeconds, trail \in {<<>>, <<98>>}}

\* the longest escape-free input
MaxPlainLen == 3

\* bytes that are no backslash: NUL, a quote, a slash, a n u, 0x80, 0xFF
PlainBytes == {0, 34, 47, 97, 110, 117, 128, 255}

RECURSIVE PlainInputsOf(_)
PlainInputsOf(k) ==
    IF k = 0 THEN {<<>>}
    ELSE LET shorter == PlainInputsOf(k - 1)
         IN  shorter \cup {Append(x, b) : x \in shorter, b \in PlainBytes}

\* every sequence of up to MaxPlainLen of these bytes
PlainInputs == PlainInputsOf(MaxPlainLen)

InitPlain == \E input \in PlainInputs : StartUnescape(input)

InitSplitPair == \E input \in SplitPairInputs : StartUnescape(input)

InitUnescape == \E input \in UnescapeInputs : StartUnescape(input)

InitUnicode == \E input \in UnicodeInputs : StartUnescape(input)

\* a turn of doUnescaping's loop: the byte at readIter is processed
UnescapeLoop ==
    /\ unesc.pc = "loop"
    /\ unesc.u.readIter < Len(unesc.u.input)
    /\ LET s == UnescapeStep(unesc.u)
       IN  unesc' = IF s.err # ""
                 THEN [unesc EXCEPT !.u = s.u, !.pc = "done", !.err = s.err]
                 ELSE [unesc EXCEPT !.u = [s.u EXCEPT !.readIter = @ + 1]]
    /\ UNCHANGED <<l, r, pc, out, ret, bufSize, prevOut, expect>>

\* the end of the input: terminate, and the shrunk slice returned
UnescapeReturn ==
    /\ unesc.pc = "loop"
    /\ unesc.u.readIter >= Len(unesc.u.input)
    /\ unesc' = IF terminate(unesc.u) # ""
             THEN [unesc EXCEPT !.pc = "done", !.err = terminate(unesc.u)]
             ELSE [unesc EXCEPT !.pc = "done",
                             !.res = Slice(unesc.u.input, 0, unesc.u.writeIter)]
    /\ UNCHANGED <<l, r, pc, out, ret, bufSize, prevOut, expect>>

NextUnescape == UnescapeLoop \/ UnescapeReturn

SpecUnescape == InitUnescape /\ [][NextUnescape]_vars

SpecUnicode == InitUnicode /\ [][NextUnescape]_vars

SpecPlain == InitPlain /\ [][NextUnescape]_vars

SpecSplitPair == InitSplitPair /\ [][NextUnescape]_vars

----------------------------------------------------------------------------
(* HexBytesToUint called on its own, as the repository's tests call it, on *)
(* four bytes: a step for the call, which leaves the value and the error.  *)

\* hex digits and the bytes next to them: 0 9 a c f A F and / : G ` g
HexByteSample == {48, 57, 97, 99, 102, 65, 70, 47, 58, 71, 96, 103}

HexInputs ==
    {<<a, b, c, d>> : a \in HexByteSample, b \in HexByteSample,
                      c \in HexByteSample, d \in HexByteSample}

StartHex(in) ==
    /\ l = NewJSONLexer
    /\ r = NewReader(<<>>)
    /\ pc = "ready"
    /\ out = <<>>
    /\ ret = <<>>
    /\ bufSize = defaultBufSize
    /\ prevOut = <<>>
    /\ expect = NoExpect
    /\ unesc = [u |-> NewBytesUnescaper(<<>>), orig |-> in, pc |-> "hex",
             res |-> <<>>, err |-> ""]

InitHex == \E in \in HexInputs : StartHex(in)

\* out, err := HexBytesToUint(testcase.input)
HexCall ==
    /\ unesc.pc = "hex"
    /\ unesc' = [unesc EXCEPT !.pc = "done",
                            !.res = <<HexBytesToUint(unesc.orig).v>>,
                            !.err = HexBytesToUint(unesc.orig).err]
    /\ UNCHANGED <<l, r, pc, out, ret, bufSize, prevOut, expect>>

SpecHex == InitHex /\ [][HexCall]_vars

----------------------------------------------------------------------------
(* Strings with escapes in them: the input is a quote, a body put together *)
(* from at most MaxQuotedChunks pieces, and a quote.                       *)

MaxQuotedChunks == 2

\* the pieces of a body
QuotedFragments ==
    {
      \* z
      <<122>>,
      \* \n
      <<92, 110>>,
      \* \f
      <<92, 102>>,
      \* \"
      <<92, 34>>,
      \* \\
      <<92, 92>>,
      \* \a
      <<92, 97>>,
      \* \
      <<92>>,
      \* \u043
      <<92, 117, 48, 52, 51>>,
      \* \u00e9
      <<92, 117, 48, 48, 101, 57>>,
      \* \U20ac
      <<92, 85, 50, 48, 97, 99>>,
      \* \uD83D
      <<92, 117, 68, 56, 51, 68>>,
      \* \uDCA9
      <<92, 117, 68, 67, 65, 57>>
    }

RECURSIVE QuotedConcats(_)
QuotedConcats(k) ==
    IF k = 0 THEN {<<>>}
    ELSE LET shorter == QuotedConcats(k - 1)
         IN  shorter \cup {x \o f : x \in shorter, f \in QuotedFragments}

QuotedInputs ==
    {<<Ch.quote>> \o body \o <<Ch.quote>> :
        body \in QuotedConcats(MaxQuotedChunks) \cup UnescapeScenarios}

InitQuoted == \E data \in QuotedInputs : Start(data, 1, NoExpect)

SpecQuoted == InitQuoted /\ [][Next]_vars

----------------------------------------------------------------------------
(* Definitions the properties share. *)

\* the bytes of data fed to the lexer one after another, as TokenFast's loop
\* feeds them, out of a buffer that holds them all: the length of the longest
\* raw token, finished (a string with its quotes, a number, a literal) or in
\* progress where the input ends or feed gives an error
RECURSIVE LongestTokenFrom(_, _, _)
LongestTokenFrom(lx, data, best) ==
    IF lx.currPos >= Len(data) THEN best
    ELSE LET fed == feed(lx, At(data, lx.currPos))
             moved == [fed.l EXCEPT !.currPos = @ + 1, !.newTokenFound = FALSE]
             scanned == IF fed.l.newTokenFound
                        THEN fed.l.currTokenEnd - fed.l.currTokenStart
                               + (IF fed.l.currTokenType = "string" THEN 1 ELSE 0)
                        ELSE IF moved.state # "Skipping"
                        THEN moved.currPos - moved.currTokenStart
                        ELSE 0
         IN  IF fed.err # "" THEN best
             ELSE LongestTokenFrom(moved, data, IF scanned > best THEN scanned ELSE best)

LongestToken(data) ==
    LongestTokenFrom([NewJSONLexer EXCEPT !.state = "Skipping", !.buf = data], data, 0)

\* a token is being scanned
InProgress == l.state \notin {"Idle", "Skipping"}

\* n times io.EOF
EOFs(n) == [i \in 1..n |-> EOF]

\* the last call returned a string
ReturnedString == pc = "ready" /\ out # <<>> /\ Last(out).t = "string"

----------------------------------------------------------------------------
(* C1: buffer-size invariance.  When the run with a buffer size is         *)
(* finished, the results of its token calls (tokens, errors, final EOF)    *)
(* are those of the finished run on the same input with the buffer size    *)
(* one smaller; so all sizes from 1 to MaxBufSize give the same results.   *)
C1_BufferSizeInvariance == (Done /\ bufSize > 1) => out = prevOut

\* a run with a string longer than its initial buffer, grown on the way,
\* that ended with the results of the run before
C1_Witness ==
    /\ Done
    /\ bufSize > 1
    /\ out = prevOut
    /\ \E i \in DOMAIN out : out[i].t = "string" /\ Len(out[i].v) > bufSize

----------------------------------------------------------------------------
(* C2 (the claim as it stands): for an input rendered from a sequence of   *)
(* well-formed values with separators between them, the finished run       *)
(* returned exactly those values, in order, and then io.EOF.               *)
C2_RoundTripAnyInput ==
    (expect.known /\ Done) => out = expect.toks \o EOFs(MaxTail)

(* C2 (amended): the same, for the inputs in which the last value is a     *)
(* string or is followed by a whitespace or delimiter byte.  When the      *)
(* input ends right after a number, true, false or null, the values        *)
(* before the last are returned in order and the call for the last value   *)
(* returns the error "unexpected EOF", again and again.                    *)
C2_RoundTripClosedInput ==
    (expect.known /\ Done) =>
        IF expect.closed
        THEN out = expect.toks \o EOFs(MaxTail)
        ELSE out = SubSeq(expect.toks, 1, Len(expect.toks) - 1)
                     \o [i \in 1..MaxTail |-> Failure("unexpected EOF")]

\* a finished run that returned a string, then a number, then io.EOF, from a
\* buffer smaller than either value's text
C2_Witness ==
    /\ expect.known
    /\ expect.closed
    /\ Done
    /\ bufSize = 2
    /\ Len(expect.toks) = 2
    /\ expect.toks[1].t = "string"
    /\ Len(expect.toks[1].v) > 0
    /\ expect.toks[2].t = "number"
    /\ out = expect.toks \o EOFs(MaxTail)

----------------------------------------------------------------------------
(* C3: a refill never loses bytes of the token in progress.  While a token *)
(* is in progress, the buffer from currTokenStart to its end holds the     *)
(* bytes of the source in their order: the token as scanned so far in      *)
(* buf[currTokenStart..currPos), and after it the input read since.  And a *)
(* refill with a token in progress leaves the token at the start of the    *)
(* buffer, byte for byte, in a buffer of the same length or of twice the   *)
(* length, with the freshly read input right after it.                     *)
C3_TokenWindow ==
    (InProgress /\ pc = "loop") =>
        /\ 0 <= l.currTokenStart
        /\ l.currTokenStart < l.currPos
        /\ l.currPos <= Len(l.buf)
        /\ AbsPos(l.currTokenStart) >= 0
        /\ Slice(l.buf, l.currTokenStart, Len(l.buf))
             = Slice(r.data, AbsPos(l.currTokenStart), r.off)

C3_RefillStep ==
    (pc = "loop" /\ l.currPos >= Len(l.buf) /\ ~l.readingFinished /\ InProgress) =>
        LET parsed == l.currPos - l.currTokenStart
            room == (IF parsed >= l.currTokenStart THEN 2 * Len(l.buf) ELSE Len(l.buf))
                      - parsed
            n == Min(room, Len(r.data) - r.off)
        IN  /\ l'.currTokenStart = 0
            /\ l'.currPos = parsed
            /\ l'.state = l.state
            /\ Slice(l'.buf, 0, parsed) = Slice(l.buf, l.currTokenStart, l.currPos)
            /\ Slice(l'.buf, parsed, Len(l'.buf)) = Slice(r.data, r.off, r.off + n)
            /\ r'.off = r.off + n
            /\ Len(l'.buf) = IF n < room THEN parsed + n ELSE parsed + room

C3_RefillKeepsToken == [](C3_TokenWindow) /\ [][C3_RefillStep]_vars

\* a token in progress that is longer than the initial buffer, in a buffer
\* that was doubled more than once
C3_Witness ==
    /\ InProgress
    /\ pc = "loop"
    /\ l.currTokenStart = 0
    /\ l.currPos > 2 * bufSize
    /\ Len(l.buf) >= 4 * bufSize

----------------------------------------------------------------------------
(* C4: string view validity.  When a token call has returned a string, and *)
(* until the next call begins, the view -- the bytes of the lexer's buffer *)
(* from currTokenStart + 1, as many as the value is long -- holds the      *)
(* value returned, which is the unescaped text of the source between the   *)
(* string's quotes.  The lexer runs only inside a token call: the one step *)
(* possible from there on the same lexer is the entry of the next call,    *)
(* and it leaves the lexer, so the view, as it is.                         *)
C4_ViewHoldsValue ==
    ReturnedString =>
        LET a == l.currTokenStart + 1
            v == Last(out).v
            raw == Slice(r.data, AbsPos(a), AbsPos(l.currTokenEnd))
        IN  /\ a + Len(v) <= l.currTokenEnd
            /\ l.currTokenEnd < Len(l.buf)
            /\ Slice(l.buf, a, a + Len(v)) = v
            /\ UnescapeBytesInplace(raw).err = ""
            /\ UnescapeBytesInplace(raw).res = v

C4_ViewKeptUntilNextCall ==
    (ReturnedString /\ bufSize' = bufSize) => (l' = l /\ pc' = "loop")

C4_StringViewValid == [](C4_ViewHoldsValue) /\ [][C4_ViewKeptUntilNextCall]_vars

\* a returned string that the unescape made shorter than its text, in a
\* buffer that had to grow to hold it
C4_Witness ==
    /\ ReturnedString
    /\ Len(Last(out).v) > 0
    /\ Len(Last(out).v) < l.currTokenEnd - (l.currTokenStart + 1)
    /\ Len(l.buf) > bufSize
    /\ Slice(l.buf, l.currTokenStart + 1, l.currTokenStart + 1 + Len(Last(out).v))
         = Last(out).v

----------------------------------------------------------------------------
(* C5: the EOF policy.  A token call that finds the source finished and    *)
(* every buffered byte consumed returns io.EOF when the lexer is in state  *)
(* Skipping, and the error "unexpected EOF" and no token in any other      *)
(* state; a call returns io.EOF or "unexpected EOF" in no other situation, *)
(* and the whole source has been read by then.  On an empty input the      *)
(* first call returns io.EOF.                                              *)
C5_Exhausted == pc = "loop" /\ l.currPos >= Len(l.buf) /\ l.readingFinished

C5_ShutdownStep ==
    C5_Exhausted =>
        /\ pc' = "ready"
        /\ out' = Append(out, IF l.state = "Skipping" THEN EOF
                              ELSE Failure("unexpected EOF"))

C5_EOFOnlyWhenExhausted ==
    (Len(out') = Len(out) + 1 /\ Last(out').err \in {"EOF", "unexpected EOF"}) =>
        /\ C5_Exhausted
        /\ r.off = Len(r.data)
        /\ Last(out').t = ""
        /\ (Last(out').err = "EOF") <=> (l.state = "Skipping")
        /\ (Last(out').err = "unexpected EOF") <=>
             (l.state \in {"String", "PendingEscapedSymbol", "UnicodeRune",
                           "Number", "Bool", "Null"})

C5_EmptyInput == (r.data = <<>> /\ out # <<>>) => out[1] = EOF

C5_EOFPolicy ==
    [](C5_EmptyInput) /\ [][C5_ShutdownStep /\ C5_EOFOnlyWhenExhausted]_vars

\* a call that returned "unexpected EOF" in the middle of a string, after a
\* call that returned a token
C5_Witness ==
    /\ pc = "ready"
    /\ Len(out) >= 2
    /\ out[1].t = "string"
    /\ Last(out) = Failure("unexpected EOF")
    /\ l.state = "String"
    /\ l.readingFinished
    /\ l.currPos >= Len(l.buf)

----------------------------------------------------------------------------
(* C6: io.EOF is absorbing.  Once a token call has returned io.EOF, every  *)
(* later call on the same lexer returns io.EOF: no token, no other error.  *)
(* The lexer a call that returned io.EOF leaves behind is the one it       *)
(* found: in state Skipping, its source finished, its buffer consumed.     *)
C6_EOFAbsorbing ==
    /\ \A i \in DOMAIN out : \A j \in DOMAIN out :
           (i < j /\ out[i] = EOF) => out[j] = EOF
    /\ (pc = "ready" /\ out # <<>> /\ Last(out) = EOF) =>
           /\ l.state = "Skipping"
           /\ l.readingFinished
           /\ l.currPos >= Len(l.buf)

\* tokens, then io.EOF, then io.EOF again from the call after
C6_Witness ==
    /\ pc = "ready"
    /\ Len(out) >= 3
    /\ out[1].err = ""
    /\ out[Len(out) - 1] = EOF
    /\ Last(out) = EOF

----------------------------------------------------------------------------
(* C7 (the claim as it stands): errors are terminal.  Once a token call    *)
(* has returned an error other than io.EOF, every later call on the same   *)
(* lexer returns an error and never a token.                               *)
C7_ErrorsTerminal ==
    \A i \in DOMAIN out : \A j \in DOMAIN out :
        (i < j /\ out[i].err \notin {"", "EOF"}) => out[j].err # ""

----------------------------------------------------------------------------
(* C8 (the claim as it stands): delimiter emission.  A structural byte     *)
(* among { } [ ] : , met in state Skipping is returned as a Delim token    *)
(* carrying that byte, and {"hello":"world"} yields Delim({),              *)
(* String(hello), Delim(:), String(world), Delim(}), io.EOF.               *)
C8_AtDelim ==
    /\ pc = "loop"
    /\ l.currPos < Len(l.buf)
    /\ l.state = "Skipping"
    /\ IsDelim(At(l.buf, l.currPos))

C8_HelloWorldWithDelims ==
    << TokenGeneric("delim", <<123>>),
       TokenGeneric("string", <<104, 101, 108, 108, 111>>),
       TokenGeneric("delim", <<58>>),
       TokenGeneric("string", <<119, 111, 114, 108, 100>>),
       TokenGeneric("delim", <<125>>) >>

C8_DelimEmitted ==
    /\ [][C8_AtDelim =>
            out' = Append(out, TokenGeneric("delim", <<At(l.buf, l.currPos)>>))]_vars
    /\ []((r.data = HelloWorld /\ Done) =>
            out = C8_HelloWorldWithDelims \o EOFs(MaxTail))

(* C8 (amended): every structural byte met in state Skipping is skipped:   *)
(* the step consumes the byte, returns nothing and leaves the lexer in     *)
(* Skipping.  No call ever returns a Delim token, and {"hello":"world"}    *)
(* yields String(hello), String(world), io.EOF.                            *)
C8_HelloWorldTokens ==
    << TokenGeneric("string", <<104, 101, 108, 108, 111>>),
       TokenGeneric("string", <<119, 111, 114, 108, 100>>) >>

C8_DelimSkipped ==
    /\ [][C8_AtDelim =>
            /\ out' = out
            /\ pc' = "loop"
            /\ l' = [l EXCEPT !.currPos = @ + 1]]_vars
    /\ [](\A i \in DOMAIN out : out[i].t # "delim")
    /\ []((r.data = HelloWorld /\ Done) =>
            out = C8_HelloWorldTokens \o EOFs(MaxTail))

\* the finished run on {"hello":"world"}, from a buffer smaller than its
\* strings
C8_Witness ==
    /\ r.data = HelloWorld
    /\ Done
    /\ bufSize = 2
    /\ out = C8_HelloWorldTokens \o EOFs(MaxTail)

----------------------------------------------------------------------------
(* C9: string recognition.  A string token starts at a '"' seen in state   *)
(* Skipping and is completed by the first '"' seen in state String; a '"'  *)
(* right after a backslash (state PendingEscapedSymbol) does not complete  *)
(* it.  The value returned is the in-place unescape of exactly the bytes   *)
(* strictly between the two quotes, buf[currTokenStart+1 .. currTokenEnd), *)
(* and the lexer is back in state Skipping, past the closing quote.        *)

\* the offset of the first '"' of data at or after offset i that no
\* backslash escapes, Len(data) when there is none
RECURSIVE C9_ClosingQuote(_, _)
C9_ClosingQuote(data, i) ==
    IF i >= Len(data) THEN Len(data)
    ELSE IF At(data, i) = Ch.quote THEN i
    ELSE IF At(data, i) = Ch.bslash THEN C9_ClosingQuote(data, i + 2)
    ELSE C9_ClosingQuote(data, i + 1)

C9_AtByte(state, c) ==
    /\ pc = "loop"
    /\ l.currPos < Len(l.buf)
    /\ l.state = state
    /\ At(l.buf, l.currPos) = c

C9_Steps ==
    /\ C9_AtByte("Skipping", Ch.quote) =>
          /\ l'.state = "String"
          /\ l'.currTokenStart = l.currPos
          /\ out' = out
    /\ C9_AtByte("String", Ch.bslash) =>
          /\ l'.state = "PendingEscapedSymbol"
          /\ out' = out
    /\ C9_AtByte("PendingEscapedSymbol", Ch.quote) =>
          /\ l'.state = "String"
          /\ l'.currTokenStart = l.currTokenStart
          /\ out' = out
          /\ pc' = "loop"
    /\ C9_AtByte("String", Ch.quote) =>
          LET un == UnescapeBytesInplace(Slice(l.buf, l.currTokenStart + 1, l.currPos))
          IN  /\ out' = Append(out, IF un.err # "" THEN Failure(un.err)
                                    ELSE TokenGeneric("string", un.res))
              /\ l'.state = "Skipping"
              /\ l'.currTokenStart = l.currTokenStart
              /\ l'.currTokenEnd = l.currPos
              /\ l'.currPos = l.currPos + 1
              /\ pc' = "ready"
    /\ (Len(out') = Len(out) + 1 /\ Last(out').t = "string") =>
          C9_AtByte("String", Ch.quote)

C9_Returned ==
    ReturnedString =>
        LET s == AbsPos(l.currTokenStart)
            e == AbsPos(l.currTokenEnd)
        IN  /\ 0 <= s /\ s < e /\ e < Len(r.data)
            /\ At(r.data, s) = Ch.quote
            /\ At(r.data, e) = Ch.quote
            /\ e = C9_ClosingQuote(r.data, s + 1)
            /\ Last(out).v = UnescapeBytesInplace(Slice(r.data, s + 1, e)).res
            /\ l.state = "Skipping"
            /\ l.currPos = l.currTokenEnd + 1

C9_StringRecognition == [](C9_Returned) /\ [][C9_Steps]_vars

\* a returned string with an escaped quote in it
C9_Witness ==
    /\ ReturnedString
    /\ \E i \in DOMAIN Last(out).v : Last(out).v[i] = Ch.quote
    /\ l.state = "Skipping"
    /\ At(r.data, AbsPos(l.currTokenEnd) - 2) = Ch.bslash

----------------------------------------------------------------------------
(* C10: escape validation in the lexer's state machine.  In state          *)
(* PendingEscapedSymbol a byte other than n r t b f \ / " u U makes the    *)
(* token call return an error.  After \u or \U each of the next four bytes *)
(* must be a hex digit, and a byte that is none (the closing quote come    *)
(* early, as in "\u12") makes the call return an error.  In both cases no  *)
(* string token is produced for that string: the lexer stays at the byte,  *)
(* and every later call returns the same error.                            *)
C10_EscapeBytes == {110, 114, 116, 98, 102, 92, 47, 34, 117, 85}

C10_HexBytes == (48..57) \cup (97..102) \cup (65..70)

C10_Fails(e) ==
    /\ out' = Append(out, Failure(e))
    /\ pc' = "ready"
    /\ l' = l

C10_Steps ==
    \A c \in 0..255 :
        /\ C9_AtByte("PendingEscapedSymbol", c) =>
              IF c \notin C10_EscapeBytes THEN C10_Fails("invalid escape sequence")
              ELSE /\ out' = out
                   /\ pc' = "loop"
                   /\ l'.state = IF c \in {117, 85} THEN "UnicodeRune" ELSE "String"
                   /\ c \in {117, 85} => l'.unicodeRuneBytesCounter = 0
        /\ C9_AtByte("UnicodeRune", c) =>
              IF c \notin C10_HexBytes THEN C10_Fails("invalid hex digit")
              ELSE /\ out' = out
                   /\ pc' = "loop"
                   /\ l'.unicodeRuneBytesCounter = l.unicodeRuneBytesCounter + 1
                   /\ l'.state = IF l.unicodeRuneBytesCounter = 3 THEN "String"
                                 ELSE "UnicodeRune"

C10_ErrorStays ==
    /\ \A i \in DOMAIN out : \A j \in DOMAIN out :
          (i < j /\ out[i].err \in {"invalid escape sequence", "invalid hex digit"})
              => out[j] = out[i]
    /\ (pc = "ready" /\ out # <<>> /\ Last(out).err = "invalid escape sequence") =>
          /\ l.state = "PendingEscapedSymbol"
          /\ l.currPos < Len(l.buf)
          /\ At(l.buf, l.currPos) \notin C10_EscapeBytes
    /\ (pc = "ready" /\ out # <<>> /\ Last(out).err = "invalid hex digit") =>
          /\ l.state = "UnicodeRune"
          /\ l.unicodeRuneBytesCounter < 4
          /\ l.currPos < Len(l.buf)
          /\ At(l.buf, l.currPos) \notin C10_HexBytes

C10_EscapeValidation == [](C10_ErrorStays) /\ [][C10_Steps]_vars

\* the closing quote come after two of the four hex digits: the call
\* returned the error, and the call after it the same
C10_Witness ==
    /\ pc = "ready"
    /\ Len(out) >= 3
    /\ out[1].t = "string"
    /\ out[Len(out) - 1] = Failure("invalid hex digit")
    /\ Last(out) = Failure("invalid hex digit")
    /\ l.state = "UnicodeRune"
    /\ l.unicodeRuneBytesCounter = 2
    /\ At(l.buf, l.currPos) = Ch.quote

----------------------------------------------------------------------------
(* C11: bool and null literals are recognised case-insensitively.  Every   *)
(* spelling of true, false or null in upper and lower case, followed by a  *)
(* whitespace or delimiter byte, yields Bool(true), Bool(false) or Null,   *)
(* and then io.EOF.  The value of a Bool is decided by the first byte of   *)
(* the token: t or T gives true, f or F gives false.  Through Token() a    *)
(* Null is a nil value with a nil error.                                   *)
C11_LiteralRecognised ==
    (expect.known /\ Done) =>
        /\ out = expect.toks \o EOFs(MaxTail)
        /\ ret[1].err = ""
        /\ ret[1].val = IF r.data[1] \in {110, 78} THEN Nil
                        ELSE [kind |-> "bool",
                              v |-> IF r.data[1] \in {116, 84} THEN <<1>> ELSE <<0>>]

C11_FirstByteDecides ==
    (pc = "ready" /\ out # <<>> /\ Last(out).t = "bool") =>
        LET c == At(r.data, AbsPos(l.currTokenStart))
        IN  /\ c \in {116, 84, 102, 70}
            /\ Last(out).v = IF c \in {116, 84} THEN <<1>> ELSE <<0>>

C11_NullIsNil ==
    \A i \in DOMAIN out :
        out[i].t = "null" => ret[i] = [val |-> Nil, err |-> ""]

C11_LiteralsCaseInsensitive ==
    C11_LiteralRecognised /\ C11_FirstByteDecides /\ C11_NullIsNil

\* FaLsE and a delimiter gave Bool(false) and then io.EOF
C11_Witness ==
    /\ expect.known
    /\ Done
    /\ SubSeq(r.data, 1, 5) = <<70, 97, 76, 115, 69>>
    /\ IsDelim(r.data[6])
    /\ out = <<TokenGeneric("bool", <<0>>)>> \o EOFs(MaxTail)
    /\ ret[1].val = [kind |-> "bool", v |-> <<0>>]

----------------------------------------------------------------------------
(* C12: invalid literals.  In state Bool or Null, a byte that is not the   *)
(* expected next letter of true, false or null, in either case, makes the  *)
(* token call return an error; the lexer stays at the byte, every later    *)
(* call returns the same error, and no Bool or Null token is produced      *)
(* (tru}, folse, Nuii).                                                    *)
C12_Expected ==
    IF l.state = "Null" THEN <<110, 117, 108, 108>>
    ELSE IF At(l.buf, l.currTokenStart) \in {116, 84} THEN <<116, 114, 117, 101>>
    ELSE <<102, 97, 108, 115, 101>>

C12_Steps ==
    (pc = "loop" /\ l.currPos < Len(l.buf) /\ l.state \in {"Bool", "Null"}
       /\ l.currPos - l.currTokenStart < Len(C12_Expected)) =>
        LET c == At(l.buf, l.currPos)
            e == At(C12_Expected, l.currPos - l.currTokenStart)
        IN  IF c \notin {e, e - 32}
            THEN /\ out' = Append(out, Failure(IF l.state = "Null"
                                               THEN "invalid literal in null"
                                               ELSE "invalid literal in bool"))
                 /\ ret' = Append(ret, [val |-> Nil, err |-> Last(out').err])
                 /\ pc' = "ready"
                 /\ l' = l
            ELSE /\ out' = out
                 /\ pc' = "loop"
                 /\ l' = [l EXCEPT !.currPos = @ + 1]

C12_NoToken ==
    /\ \A i \in DOMAIN out : \A j \in DOMAIN out :
          (i < j /\ out[i].err \in {"invalid literal in bool", "invalid literal in null"})
              => out[j] = out[i]
    /\ (Done /\ ~expect.known) =>
          out = [i \in 1..MaxTail |->
                    Failure(IF r.data[1] \in {110, 78} THEN "invalid literal in null"
                            ELSE "invalid literal in bool")]

C12_InvalidLiteral == [](C12_NoToken) /\ [][C12_Steps]_vars

\* folse: the call returned the error, and the call after it the same
C12_Witness ==
    /\ Done
    /\ SubSeq(r.data, 1, 5) = <<102, 111, 108, 115, 101>>
    /\ out = [i \in 1..MaxTail |-> Failure("invalid literal in bool")]
    /\ l.state = "Bool"
    /\ l.currPos - l.currTokenStart = 1

----------------------------------------------------------------------------
(* C13: number tokens.  The text of a number token is the bytes from the   *)
(* byte that opened the number up to, and without, the first whitespace or *)
(* delimiter byte after it.  The call returns the float parsed from that   *)
(* text, and an error in place of the token when the text is no float      *)
(* literal (3.1.4, 5-2, 1.57+10, 1.2e*10, 1.57+e10, 1.210-e).              *)
C13_Opening == (48..57) \cup {43, 45, 46, 101, 69}

C13_Ending == {9, 10, 11, 12, 13, 32, 133, 160} \cup {123, 125, 91, 93, 58, 44}

C13_NumberResult(text) ==
    IF ParseFloat(text).ok THEN TokenGeneric("number", ParseFloat(text).v)
    ELSE Failure("could not convert to float64")

\* the call that ended a number: its text lies in the source as claimed
C13_TextOfToken ==
    (pc = "ready" /\ out # <<>>
       /\ (Last(out).t = "number" \/ Last(out).err = "could not convert to float64")) =>
        LET s == AbsPos(l.currTokenStart)
            e == AbsPos(l.currTokenEnd)
        IN  /\ 0 <= s /\ s < e /\ e < Len(r.data)
            /\ At(r.data, s) \in C13_Opening
            /\ At(r.data, e) \in C13_Ending
            /\ \A i \in s..(e - 1) : At(r.data, i) \notin C13_Ending
            /\ Last(out) = C13_NumberResult(Slice(r.data, s, e))
            /\ l.state = "Skipping"

\* the finished run on a text and the byte that ends it
C13_RunOnText ==
    Done =>
        LET text == SubSeq(r.data, 1, Len(r.data) - 1)
            res == C13_NumberResult(text)
        IN  /\ out = <<res>> \o EOFs(IF res.err = "" THEN MaxTail ELSE MaxTail - 1)
            /\ ret[1] = IF res.err = "" THEN [val |-> [kind |-> "float64", v |-> res.v],
                                              err |-> ""]
                        ELSE [val |-> Nil, err |-> res.err]

\* the texts of the tests: the invalid ones, and three valid ones
C13_Examples ==
    Done =>
        LET text == SubSeq(r.data, 1, Len(r.data) - 1)
        IN  /\ text \in {<<51, 46, 49, 46, 52>>, <<53, 45, 50>>,
                         <<49, 46, 53, 55, 43, 49, 48>>, <<49, 46, 50, 101, 42, 49, 48>>,
                         <<49, 46, 53, 55, 43, 101, 49, 48>>, <<49, 46, 50, 49, 48, 45, 101>>}
                  => out[1] = Failure("could not convert to float64")
            /\ text = <<51, 46, 49, 52>> => out[1] = TokenGeneric("number", <<0, 314, 0 - 2>>)
            /\ text = <<45, 53, 50>> => out[1] = TokenGeneric("number", <<1, 52, 0>>)
            /\ text = <<49, 46, 53, 55, 101, 43, 49, 48>>
                  => out[1] = TokenGeneric("number", <<0, 157, 8>>)

C13_NumberTokens == C13_TextOfToken /\ C13_RunOnText /\ C13_Examples

\* 5-2 and a delimiter: the call returned the error, and the next io.EOF
C13_Witness ==
    /\ Done
    /\ r.data = <<53, 45, 50, 125>>
    /\ out = <<Failure("could not convert to float64")>> \o EOFs(MaxTail - 1)
    /\ l.currTokenEnd - l.currTokenStart = 3

----------------------------------------------------------------------------
(* C14: Token() is a projection of TokenFast().  Token() returns an error  *)
(* exactly when TokenFast() does, the same error and no value; otherwise   *)
(* it returns nil for a null, the byte for a delimiter, the float64 for a  *)
(* number, the string for a string and the bool for a bool.  It returns    *)
(* in the step in which TokenFast() returns, and so leaves the lexer as    *)
(* TokenFast() leaves it.                                                  *)
C14_Projected(res, got) ==
    /\ (got.err # "") <=> (res.err # "")
    /\ got.err = res.err
    /\ res.err # "" => got.val = Nil
    /\ (res.err = "" /\ res.t = "null") => got.val = Nil
    /\ (res.err = "" /\ res.t = "delim") => got.val = [kind |-> "byte", v |-> res.v]
    /\ (res.err = "" /\ res.t = "number") => got.val = [kind |-> "float64", v |-> res.v]
    /\ (res.err = "" /\ res.t = "string") => got.val = [kind |-> "string", v |-> res.v]
    /\ (res.err = "" /\ res.t = "bool") => got.val = [kind |-> "bool", v |-> res.v]

C14_Results ==
    /\ Len(ret) = Len(out)
    /\ \A i \in DOMAIN out : C14_Projected(out[i], ret[i])
    /\ \A c \in {123, 125, 91, 93, 58, 44} :
          C14_Projected(TokenGeneric("delim", <<c>>), Token(TokenGeneric("delim", <<c>>)))

C14_SameStep ==
    /\ (ret' # ret) <=> (out' # out)
    /\ (Len(out') = Len(out) + 1) =>
          /\ ret' = Append(ret, Token(Last(out')))
          /\ pc' = "ready"

C14_TokenProjectsTokenFast == [](C14_Results) /\ [][C14_SameStep]_vars

\* a finished run whose calls returned strings, bools, a null and io.EOF
C14_Witness ==
    /\ Done
    /\ \E i \in DOMAIN out : out[i].t = "string" /\ ret[i].val.kind = "string"
    /\ \E i \in DOMAIN out : out[i].t = "bool" /\ ret[i].val = [kind |-> "bool", v |-> <<0>>]
    /\ \E i \in DOMAIN out : out[i].t = "null" /\ ret[i] = [val |-> Nil, err |-> ""]
    /\ Last(ret) = [val |-> Nil, err |-> "EOF"]

----------------------------------------------------------------------------
(* C15: simple escapes.  UnescapeBytesInplace replaces each two-byte       *)
(* sequence \n \r \t \b \f \\ \/ \" by the single byte 0x0A 0x0D 0x09      *)
(* 0x08 0x0C '\' '/' '"', copies every other byte unchanged and in order,  *)
(* and returns the prefix of the input slice that holds the result.        *)
C15_Byte == (110 :> 10) @@ (114 :> 13) @@ (116 :> 9) @@ (98 :> 8) @@ (102 :> 12)
              @@ (92 :> 92) @@ (47 :> 47) @@ (34 :> 34)

\* s is made of bytes other than the backslash and of simple escapes only
RECURSIVE C15_IsSimple(_)
C15_IsSimple(s) ==
    IF s = <<>> THEN TRUE
    ELSE IF s[1] # 92 THEN C15_IsSimple(Tail(s))
    ELSE Len(s) >= 2 /\ s[2] \in DOMAIN C15_Byte /\ C15_IsSimple(SubSeq(s, 3, Len(s)))

\* such an s with each escape replaced by its byte
RECURSIVE C15_Replaced(_)
C15_Replaced(s) ==
    IF s = <<>> THEN <<>>
    ELSE IF s[1] # 92 THEN <<s[1]>> \o C15_Replaced(Tail(s))
    ELSE <<C15_Byte[s[2]]>> \o C15_Replaced(SubSeq(s, 3, Len(s)))

C15_Result ==
    (unesc.pc = "done" /\ C15_IsSimple(unesc.orig)) =>
        /\ unesc.err = ""
        /\ unesc.res = C15_Replaced(unesc.orig)
        /\ Len(unesc.u.input) = Len(unesc.orig)
        /\ unesc.res = SubSeq(unesc.u.input, 1, unesc.u.writeIter)

C15_Turn ==
    (unesc.pc = "loop" /\ unesc.u.readIter < Len(unesc.u.input)
       /\ unesc.u.pendingUnicodeBytes = 0) =>
        LET u == unesc.u
            c == At(u.input, u.readIter)
            written(b) == /\ unesc'.u.input = [u.input EXCEPT ![u.writeIter + 1] = b]
                          /\ unesc'.u.writeIter = u.writeIter + 1
                          /\ unesc'.u.readIter = u.readIter + 1
                          /\ unesc'.u.pendingEscapedSymbol = FALSE
                          /\ unesc'.pc = "loop"
        IN  /\ (u.pendingEscapedSymbol /\ c \in DOMAIN C15_Byte
                  /\ ~u.pendingSecondUTF16SeqPoint) => written(C15_Byte[c])
            /\ (~u.pendingEscapedSymbol /\ c # 92) => written(c)
            /\ (~u.pendingEscapedSymbol /\ c = 92) =>
                  /\ unesc'.u.input = u.input
                  /\ unesc'.u.writeIter = u.writeIter
                  /\ unesc'.u.pendingEscapedSymbol

C15_SimpleEscapes == [](C15_Result) /\ [][C15_Turn]_vars

\* \b\" gave the two bytes 0x08 and '"', at the start of the input slice
C15_Witness ==
    /\ unesc.pc = "done"
    /\ unesc.orig = <<92, 98, 92, 34>>
    /\ unesc.res = <<8, 34>>
    /\ unesc.u.input = <<8, 34, 92, 34>>

----------------------------------------------------------------------------
(* C16: unicode escapes.  For a 16-bit value v outside the surrogate range *)
(* D800..DFFF, the six bytes \uXXXX, and as well \UXXXX, with the hex      *)
(* digits in either case, are replaced by the UTF-8 encoding of the code   *)
(* point v, of 1 to 3 bytes; \u0000 gives the single byte 0.               *)
C16_Digit(c) ==
    IF c \in 48..57 THEN c - 48
    ELSE IF c \in 97..102 THEN c - 87
    ELSE c - 55

\* the value the four hex digits of a six-byte escape denote
C16_Value(esc) ==
    4096 * C16_Digit(esc[3]) + 256 * C16_Digit(esc[4])
       + 16 * C16_Digit(esc[5]) + C16_Digit(esc[6])

C16_UTF8(v) ==
    IF v < 128 THEN <<v>>
    ELSE IF v < 2048 THEN <<192 + (v \div 64), 128 + (v % 64)>>
    ELSE <<224 + (v \div 4096), 128 + ((v \div 64) % 64), 128 + (v % 64)>>

C16_UnicodeEscapes ==
    (unesc.pc = "done" /\ Len(unesc.orig) = 6
       /\ C16_Value(unesc.orig) \notin 55296..57343) =>
        /\ unesc.err = ""
        /\ unesc.res = C16_UTF8(C16_Value(unesc.orig))
        /\ unesc.res = SubSeq(unesc.u.input, 1, unesc.u.writeIter)
        /\ C16_Value(unesc.orig) = 0 => unesc.res = <<0>>

\* \UD7fF, the last value below the surrogates, gave its three bytes
C16_Witness ==
    /\ unesc.pc = "done"
    /\ unesc.orig = <<92, 85, 68, 55, 102, 70>>
    /\ unesc.err = ""
    /\ unesc.res = <<237, 159, 191>>

----------------------------------------------------------------------------
(* C17: surrogate pairs.  A \u escape whose value is a high surrogate      *)
(* (D800..DBFF), with a \u escape whose value is a low surrogate           *)
(* (DC00..DFFF) right after it, is replaced by the 4-byte UTF-8 encoding   *)
(* of the code point 0x10000 + ((high - 0xD800) << 10) + (low - 0xDC00),   *)
(* and the pending-surrogate flag is cleared afterwards.                   *)
C17_CodePoint(high, low) == 65536 + (high - 55296) * 1024 + (low - 56320)

C17_UTF8(cp) ==
    <<240 + (cp \div 262144), 128 + ((cp \div 4096) % 64),
      128 + ((cp \div 64) % 64), 128 + (cp % 64)>>

\* the turn of the loop at the last hex digit of the second escape
C17_Turn ==
    LET u == unesc.u
        low == C16_Value(<<92, 117>> \o SubSeq(u.input, u.readIter - 2, u.readIter + 1))
    IN  (unesc.pc = "loop" /\ u.readIter < Len(u.input)
           /\ u.pendingUnicodeBytes = 1 /\ u.pendingSecondUTF16SeqPoint
           /\ u.firstUTF16SeqPoint \in 55296..56319
           /\ \A i \in (u.readIter - 2)..(u.readIter + 1) : IsHexDigit(u.input[i])
           /\ low \in 56320..57343) =>
            /\ unesc'.pc = "loop"
            /\ unesc'.u.writeIter = u.writeIter + 4
            /\ SubSeq(unesc'.u.input, u.writeIter + 1, u.writeIter + 4)
                 = C17_UTF8(C17_CodePoint(u.firstUTF16SeqPoint, low))
            /\ unesc'.u.pendingSecondUTF16SeqPoint = FALSE
            /\ unesc'.u.pendingUnicodeBytes = 0

\* the call on a high and a low surrogate escape and nothing else
C17_Result ==
    LET high == C16_Value(SubSeq(unesc.orig, 1, 6))
        low == C16_Value(SubSeq(unesc.orig, 7, 12))
    IN  (unesc.pc = "done" /\ Len(unesc.orig) = 12
           /\ SubSeq(unesc.orig, 1, 2) \in {<<92, 117>>, <<92, 85>>}
           /\ SubSeq(unesc.orig, 7, 8) \in {<<92, 117>>, <<92, 85>>}
           /\ high \in 55296..56319 /\ low \in 56320..57343) =>
            /\ unesc.err = ""
            /\ unesc.res = C17_UTF8(C17_CodePoint(high, low))
            /\ unesc.u.pendingSecondUTF16SeqPoint = FALSE

C17_SurrogatePairs == [](C17_Result) /\ [][C17_Turn]_vars

\* \uD83D\uDCA9 gave the four bytes of U+1F4A9
C17_Witness ==
    /\ unesc.pc = "done"
    /\ unesc.orig = <<92, 117, 68, 56, 51, 68, 92, 117, 68, 67, 65, 57>>
    /\ unesc.res = <<240, 159, 146, 169>>
    /\ ~unesc.u.pendingSecondUTF16SeqPoint

----------------------------------------------------------------------------
(* C18: invalid escapes in the unescaper.  UnescapeBytesInplace returns an *)
(* error, and no result slice, whenever the byte after a backslash that    *)
(* opens an escape is not one of n r t b f \ / " u U (as in \a).           *)

\* reading s from the left, escape by escape, meets a backslash with a byte
\* after it that is none of these
RECURSIVE C18_HasInvalidEscape(_)
C18_HasInvalidEscape(s) ==
    IF Len(s) < 2 THEN FALSE
    ELSE IF s[1] # 92 THEN C18_HasInvalidEscape(Tail(s))
    ELSE IF s[2] \notin C10_EscapeBytes THEN TRUE
    ELSE IF s[2] \in {117, 85} THEN C18_HasInvalidEscape(SubSeq(s, 7, Len(s)))
    ELSE C18_HasInvalidEscape(SubSeq(s, 3, Len(s)))

C18_Result ==
    (unesc.pc = "done" /\ C18_HasInvalidEscape(unesc.orig)) =>
        /\ unesc.err # ""
        /\ unesc.res = <<>>

\* the turn of the loop at the byte after the backslash
C18_Turn ==
    (unesc.pc = "loop" /\ unesc.u.readIter < Len(unesc.u.input)
       /\ unesc.u.pendingUnicodeBytes = 0 /\ unesc.u.pendingEscapedSymbol
       /\ At(unesc.u.input, unesc.u.readIter) \notin C10_EscapeBytes) =>
        /\ unesc'.pc = "done"
        /\ unesc'.err = IF unesc.u.pendingSecondUTF16SeqPoint
                        THEN "missing second sequence point"
                        ELSE "invalid escape sequence"
        /\ unesc'.res = <<>>
        /\ unesc'.u.writeIter = unesc.u.writeIter

C18_InvalidEscape == [](C18_Result) /\ [][C18_Turn]_vars

\* z\a: the error, and no result, after the z was copied
C18_Witness ==
    /\ unesc.pc = "done"
    /\ unesc.orig = <<122, 92, 97>>
    /\ unesc.err = "invalid escape sequence"
    /\ unesc.res = <<>>
    /\ unesc.u.readIter = 2

----------------------------------------------------------------------------
(* C19: incomplete escapes.  UnescapeBytesInplace returns an error when    *)
(* the input ends while a backslash awaits its specifier, while fewer than *)
(* four hex digits of a \u escape have been read, or while a high          *)
(* surrogate still awaits its low partner (the inputs "\", "\u043" and     *)
(* "hello \ud83d world").                                                  *)

\* the return of doUnescaping, by what is pending at the end of the input
C19_Return ==
    (unesc.pc = "loop" /\ unesc.u.readIter >= Len(unesc.u.input)) =>
        /\ unesc'.pc = "done"
        /\ unesc.u.pendingSecondUTF16SeqPoint =>
              unesc'.err = "missing second sequence point" /\ unesc'.res = <<>>
        /\ (~unesc.u.pendingSecondUTF16SeqPoint
              /\ (unesc.u.pendingEscapedSymbol \/ unesc.u.pendingUnicodeBytes > 0)) =>
              unesc'.err = "incomplete escape sequence" /\ unesc'.res = <<>>
        /\ (~unesc.u.pendingSecondUTF16SeqPoint /\ ~unesc.u.pendingEscapedSymbol
              /\ unesc.u.pendingUnicodeBytes = 0) =>
              unesc'.err = "" /\ unesc'.res = SubSeq(unesc.u.input, 1, unesc.u.writeIter)

\* s ends in a backslash that opens an escape
C19_EndsInBackslash(s) ==
    Len(s) >= 1 /\ s[Len(s)] = 92 /\ C15_IsSimple(SubSeq(s, 1, Len(s) - 1))

\* s ends in \u or \U and fewer than four hex digits
C19_EndsInShortEscape(s) ==
    \E k \in 0..3 :
        /\ Len(s) >= k + 2
        /\ SubSeq(s, Len(s) - k - 1, Len(s) - k) \in {<<92, 117>>, <<92, 85>>}
        /\ \A i \in (Len(s) - k + 1)..Len(s) : s[i] \in C10_HexBytes
        /\ C15_IsSimple(SubSeq(s, 1, Len(s) - k - 2))

\* s ends in the escape of a high surrogate and bytes that are no backslash
C19_EndsInHighSurrogate(s) ==
    \E p \in 0..Len(s) :
        /\ Len(s) >= p + 6
        /\ C15_IsSimple(SubSeq(s, 1, p))
        /\ SubSeq(s, p + 1, p + 2) \in {<<92, 117>>, <<92, 85>>}
        /\ \A i \in (p + 3)..(p + 6) : s[i] \in C10_HexBytes
        /\ C16_Value(SubSeq(s, p + 1, p + 6)) \in 55296..56319
        /\ \A i \in (p + 7)..Len(s) : s[i] # 92

C19_Result ==
    unesc.pc = "done" =>
        /\ (C19_EndsInBackslash(unesc.orig) \/ C19_EndsInShortEscape(unesc.orig)) =>
              unesc.err = "incomplete escape sequence" /\ unesc.res = <<>>
        /\ C19_EndsInHighSurrogate(unesc.orig) =>
              unesc.err = "missing second sequence point" /\ unesc.res = <<>>
        /\ unesc.orig \in {<<92>>, <<92, 117, 48, 52, 51>>,
                           <<104, 101, 108, 108, 111, 32, 92, 117, 100, 56, 51, 100,
                             32, 119, 111, 114, 108, 100>>} => unesc.err # ""

C19_IncompleteEscape == [](C19_Result) /\ [][C19_Return]_vars

\* hello \ud83d world: read to its end, and then the error
C19_Witness ==
    /\ unesc.pc = "done"
    /\ unesc.orig = <<104, 101, 108, 108, 111, 32, 92, 117, 100, 56, 51, 100,
                      32, 119, 111, 114, 108, 100>>
    /\ unesc.u.readIter = Len(unesc.orig)
    /\ unesc.err = "missing second sequence point"
    /\ unesc.res = <<>>

----------------------------------------------------------------------------
(* C20: invalid surrogate pairs.  When a high surrogate is pending and the *)
(* next \u escape has a value that is no low surrogate (as in              *)
(* \ud83d\ufca9), UnescapeBytesInplace returns an error and emits no code  *)
(* point for the pair.                                                     *)

\* the turn of the loop at the last hex digit of the second escape
C20_Turn ==
    LET u == unesc.u
        second == C16_Value(<<92, 117>> \o SubSeq(u.input, u.readIter - 2, u.readIter + 1))
    IN  (unesc.pc = "loop" /\ u.readIter < Len(u.input)
           /\ u.pendingUnicodeBytes = 1 /\ u.pendingSecondUTF16SeqPoint
           /\ u.firstUTF16SeqPoint \in 55296..56319
           /\ \A i \in (u.readIter - 2)..(u.readIter + 1) : u.input[i] \in C10_HexBytes
           /\ second \notin 56320..57343) =>
            /\ unesc'.pc = "done"
            /\ unesc'.err = "invalid surrogate pair"
            /\ unesc'.res = <<>>
            /\ unesc'.u.writeIter = u.writeIter
            /\ unesc'.u.input = u.input

\* the call on a high surrogate escape and an escape that is no low surrogate
C20_Result ==
    LET high == C16_Value(SubSeq(unesc.orig, 1, 6))
        second == C16_Value(SubSeq(unesc.orig, 7, 12))
    IN  /\ (unesc.pc = "done" /\ Len(unesc.orig) = 12
              /\ SubSeq(unesc.orig, 1, 2) \in {<<92, 117>>, <<92, 85>>}
              /\ SubSeq(unesc.orig, 7, 8) \in {<<92, 117>>, <<92, 85>>}
              /\ \A i \in {3, 4, 5, 6, 9, 10, 11, 12} : unesc.orig[i] \in C10_HexBytes
              /\ high \in 55296..56319 /\ second \notin 56320..57343) =>
               /\ unesc.err = "invalid surrogate pair"
               /\ unesc.res = <<>>
               /\ unesc.u.writeIter = 0
        /\ (unesc.pc = "done"
              /\ unesc.orig = <<104, 101, 108, 108, 111, 32, 92, 117, 100, 56, 51, 100,
                                92, 117, 102, 99, 97, 57, 32, 119, 111, 114, 108, 100>>) =>
               /\ unesc.err = "invalid surrogate pair"
               /\ unesc.res = <<>>
               /\ unesc.u.writeIter = 6

C20_InvalidSurrogatePair == [](C20_Result) /\ [][C20_Turn]_vars

\* \uD83D\ufca9: the error at the last digit, and nothing written
C20_Witness ==
    /\ unesc.pc = "done"
    /\ unesc.orig = <<92, 117, 68, 56, 51, 68, 92, 117, 102, 99, 97, 57>>
    /\ unesc.err = "invalid surrogate pair"
    /\ unesc.res = <<>>
    /\ unesc.u.readIter = 11
    /\ unesc.u.writeIter = 0

----------------------------------------------------------------------------
(* C21 (the claim as it stands): no byte may sit between the two halves of *)
(* a pair.  When the escape of a high surrogate is followed by an ordinary *)
(* byte or by an escape other than \u and \U, UnescapeBytesInplace returns *)
(* an error and no result, whatever comes after.                           *)
C21_NoByteBetweenHalves ==
    (unesc.pc = "done" /\ unesc.orig \in SplitPairInputs) =>
        unesc.err # "" /\ unesc.res = <<>>

----------------------------------------------------------------------------
(* C22: in-place safety of the unescaper.  Before a byte is processed the  *)
(* write cursor is at most the read cursor; a turn of the loop changes no  *)
(* byte after the one it has just read and leaves the write cursor at most *)
(* one past the read cursor; so the slice returned is never longer than    *)
(* the input.                                                              *)

\* the cursors in every state of the call
C22_Cursors ==
    unesc.pc # "idle" =>
        /\ 0 <= unesc.u.writeIter
        /\ unesc.u.writeIter <= unesc.u.readIter
        /\ unesc.u.readIter <= Len(unesc.u.input)
        /\ Len(unesc.u.input) = Len(unesc.orig)
        /\ Len(unesc.res) <= Len(unesc.orig)
        /\ (unesc.pc = "done" /\ unesc.err = "") => Len(unesc.res) = unesc.u.writeIter

\* the writes of one turn of the loop
C22_Writes ==
    (unesc.pc = "loop" /\ unesc.u.readIter < Len(unesc.u.input)) =>
        /\ unesc'.u.writeIter >= unesc.u.writeIter
        /\ unesc'.u.writeIter <= unesc.u.readIter + 1
        /\ \A i \in 1..Len(unesc.u.input) :
              (i <= unesc.u.writeIter \/ i > unesc.u.readIter + 1) =>
                  unesc'.u.input[i] = unesc.u.input[i]

C22_InPlaceSafety == [](C22_Cursors) /\ [][C22_Writes]_vars

\* hello \UD83D\UDCA9 world: the bytes before the pair written where they were
\* read, the four bytes of the pair below the twelve read, 16 bytes of 24
C22_Witness ==
    /\ unesc.pc = "done"
    /\ unesc.orig = <<104, 101, 108, 108, 111, 32, 92, 85, 68, 56, 51, 68,
                      92, 85, 68, 67, 65, 57, 32, 119, 111, 114, 108, 100>>
    /\ unesc.err = ""
    /\ unesc.res = <<104, 101, 108, 108, 111, 32, 240, 159, 146, 169,
                     32, 119, 111, 114, 108, 100>>
    /\ unesc.u.writeIter = 16
    /\ unesc.u.readIter = 24

----------------------------------------------------------------------------
(* C23: UnescapeBytesInplace is the identity on input without a backslash: *)
(* the call succeeds, leaves every byte as it was and returns a slice of   *)
(* the length of the input; applied to its result it gives that result     *)
(* again.                                                                  *)

C23_NoBackslash(s) == \A i \in 1..Len(s) : s[i] # 92

\* the finished call
C23_Result ==
    (unesc.pc = "done" /\ C23_NoBackslash(unesc.orig)) =>
        /\ unesc.err = ""
        /\ unesc.u.input = unesc.orig
        /\ unesc.res = unesc.orig
        /\ Len(unesc.res) = Len(unesc.orig)
        /\ UnescapeBytesInplace(unesc.res).err = ""
        /\ UnescapeBytesInplace(unesc.res).res = unesc.res
        /\ UnescapeBytesInplace(unesc.res).input = unesc.res

\* a turn of the loop: the byte stays, both cursors move by one
C23_Turn ==
    (unesc.pc = "loop" /\ unesc.u.readIter < Len(unesc.u.input)
       /\ C23_NoBackslash(unesc.orig)) =>
        /\ unesc'.pc = "loop"
        /\ unesc'.u.input = unesc.u.input
        /\ unesc.u.writeIter = unesc.u.readIter
        /\ unesc'.u.writeIter = unesc.u.writeIter + 1
        /\ unesc'.u.readIter = unesc.u.readIter + 1

C23_IdentityOnPlain == [](C23_Result) /\ [][C23_Turn]_vars

\* "u/ : bytes that mean something after a backslash, returned as they are
C23_Witness ==
    /\ unesc.pc = "done"
    /\ unesc.orig = <<34, 117, 47>>
    /\ unesc.err = ""
    /\ unesc.res = <<34, 117, 47>>
    /\ unesc.u.writeIter = 3

----------------------------------------------------------------------------
(* C24: independence from read chunking.  For an input and a buffer size,  *)
(* the results of the token calls (tokens, errors, final EOF) of the       *)
(* finished run are those of the run before, whose source split its bytes  *)
(* into reads another way; and the lexer takes the stream for finished     *)
(* only when the source has given all its bytes.                           *)

C24_SameResults == (Done /\ SplitIndex > 1) => out = prevOut

\* readingFinished is set only at the end of the source
C24_FinishedAtEnd ==
    (l'.readingFinished /\ ~l.readingFinished) => r'.off = Len(r'.data)

\* a refill hands the lexer the bytes it asked for unless the source ended
C24_Refill ==
    (pc = "loop" /\ l.currPos >= Len(l.buf) /\ ~l.readingFinished) =>
        \/ l'.readingFinished
        \/ /\ Len(l'.buf) - l'.currPos = r'.off - r.off
           /\ SubSeq(l'.buf, l'.currPos + 1, Len(l'.buf)) = SubSeq(r.data, r.off + 1, r'.off)

C24_ChunkingIndependence ==
    [](C24_SameResults) /\ [][C24_FinishedAtEnd /\ C24_Refill]_vars

\* {"hello":"world"} from a source that gives one byte a Read, with a
\* buffer of three bytes: the tokens of the run before
C24_Witness ==
    /\ Done
    /\ r.data = HelloWorld
    /\ bufSize = 3
    /\ r.max = 1
    /\ out = prevOut
    /\ Len(out) = 2 + MaxTail
    /\ out[1].t = "string" /\ out[2].t = "string"

----------------------------------------------------------------------------
(* C25: source errors propagate.  When the reader gives an error other     *)
(* than the end of the stream during a refill, the token call that asked   *)
(* for the refill returns an error that wraps the reader's, and no token,  *)
(* and readingFinished is not set.                                         *)

\* a refill is due: at the first call, or in the loop with the buffer used up
C25_RefillDue ==
    \/ pc = "ready" /\ Running /\ l.state = "Idle"
    \/ pc = "loop" /\ l.currPos >= Len(l.buf) /\ ~l.readingFinished

\* how many bytes the refill asks the source for
C25_Asked == Len(fetchKeepToken(l).buf) - fetchKeepToken(l).currPos

\* the source fails before it has given that many
C25_SourceFails ==
    /\ r.failAt >= r.off
    /\ r.failAt - r.off < C25_Asked
    /\ r.failAt <= Len(r.data)

C25_Propagated ==
    (C25_RefillDue /\ C25_SourceFails) =>
        /\ pc' = "ready"
        /\ out' = Append(out, Failure(Errorf("could not fetch new data", r.fail)))
        /\ Last(out').err \in {"could not fetch new data: timeout",
                               "could not fetch new data: closed pipe"}
        /\ Last(ret') = [val |-> Nil, err |-> Last(out').err]
        /\ ~l'.readingFinished
        /\ l'.state = l.state
        /\ r'.off = r.failAt

\* an error of this kind is returned by a refill on a failing source only
C25_OnlyFromSource ==
    \A i \in DOMAIN out :
        out[i].err \in {"could not fetch new data: timeout",
                        "could not fetch new data: closed pipe"} =>
            out[i].err = Errorf("could not fetch new data", r.fail)

C25_SourceErrorsPropagate == [](C25_OnlyFromSource) /\ [][C25_Propagated]_vars

\* {"hello":"world"} from a source that fails for good after 12 bytes: the
\* call after the first token returned the error of the source
C25_Witness ==
    /\ pc = "ready"
    /\ r.data = HelloWorld
    /\ r.sticky /\ r.failAt = 12 /\ r.off = 12 /\ r.fail = "closed pipe"
    /\ Len(out) = 2
    /\ out[1].t = "string"
    /\ out[2].err = "could not fetch new data: closed pipe"
    /\ ret[2] = [val |-> Nil, err |-> "could not fetch new data: closed pipe"]
    /\ ~l.readingFinished

----------------------------------------------------------------------------
(* C26: prefix determinism.  On an input that shares with another the      *)
(* prefix ending at the byte where the lexer reported an error on the      *)
(* other, the lexer returns the same tokens in the same order and then the *)
(* same error: the bytes after that byte have no part in the results up to *)
(* the error.                                                              *)
C26_PrefixDeterminism ==
    (prevOut # <<>> /\ pc = "ready") =>
        /\ Len(out) <= Len(prevOut) => out = SubSeq(prevOut, 1, Len(out))
        /\ Len(out) >= Len(prevOut) => SubSeq(out, 1, Len(prevOut)) = prevOut
        /\ ~Running => Len(out) >= Len(prevOut)

\* a string token and then the error at the a of "\a, again on the input cut
\* after the a, where the first input went on
C26_Witness ==
    /\ pc = "ready"
    /\ Len(prevOut) = 2
    /\ out = prevOut
    /\ out[1].t = "string"
    /\ out[2].err = "invalid escape sequence"
    /\ Len(r.data) = 12
    /\ r.data = SubSeq(HelloWorld, 1, 9) \o <<34, 92, 97>>

----------------------------------------------------------------------------
(* C27: memory is bounded by the longest token.  The buffer gets longer    *)
(* only in a refill with a token in progress whose scanned part fills at   *)
(* least half of the buffer, and then it is doubled (and cut where the     *)
(* source ends, when it ends in that refill); so the buffer is never       *)
(* longer than the larger of its initial size and four times the length    *)
(* of the longest raw token of the input.                                  *)

C27_Bound ==
    pc # "idle" =>
        \/ Len(l.buf) <= bufSize
        \/ Len(l.buf) <= 4 * LongestToken(r.data)

\* a step of a run (not the start of the next run, with a new lexer)
C27_Growth ==
    (Len(out') >= Len(out) /\ Len(l'.buf) > Len(l.buf)) =>
        /\ pc = "loop" /\ pc' = "loop"
        /\ l.currPos >= Len(l.buf) /\ ~l.readingFinished
        /\ InProgress
        /\ 2 * (l.currPos - l.currTokenStart) >= Len(l.buf)
        /\ Len(fetchKeepToken(l).buf) = 2 * Len(l.buf)
        /\ Len(l'.buf) <= 2 * Len(l.buf)
        /\ ~l'.readingFinished => Len(l'.buf) = 2 * Len(l.buf)

\* with no token in progress, or one that fills less than half, a refill
\* reuses the buffer
C27_Reuse ==
    (pc = "loop" /\ l.currPos >= Len(l.buf) /\ ~l.readingFinished
       /\ (~InProgress \/ 2 * (l.currPos - l.currTokenStart) < Len(l.buf))) =>
        Len(l'.buf) <= Len(l.buf)

C27_BoundedMemory == [](C27_Bound) /\ [][C27_Growth /\ C27_Reuse]_vars

\* {"hello":"world"} lexed with a buffer of one byte: when the first string,
\* of 7 bytes, has been returned the buffer has been doubled to 8 bytes
C27_Witness ==
    /\ pc = "ready"
    /\ r.data = HelloWorld
    /\ bufSize = 1
    /\ LongestToken(r.data) = 7
    /\ Len(out) = 1
    /\ out[1].t = "string"
    /\ l.state = "Skipping"
    /\ Len(l.buf) = 8

----------------------------------------------------------------------------
(* C28: position invariant.  While a token is in progress, and when a      *)
(* token is completed, 0 <= currTokenStart <= currPos <= len(buf), and the *)
(* raw bytes of the token, from its opening byte on, are the bytes of the  *)
(* buffer from currTokenStart up to currPos.                               *)

\* the byte a token of the state opens with
C28_Opens(state, c) ==
    \/ state \in {"String", "PendingEscapedSymbol", "UnicodeRune"} /\ c = Ch.quote
    \/ state = "Number" /\ CanAppearInNumber(c)
    \/ state = "Bool" /\ c \in {Ch.t, Ch.T, Ch.f, Ch.F}
    \/ state = "Null" /\ c \in {Ch.n, Ch.N}

C28_InProgress ==
    InProgress =>
        /\ 0 <= l.currTokenStart
        /\ l.currTokenStart <= l.currPos
        /\ l.currPos <= Len(l.buf)
        /\ AbsPos(l.currTokenStart) >= 0
        /\ Slice(l.buf, l.currTokenStart, l.currPos)
             = Slice(r.data, AbsPos(l.currTokenStart), AbsPos(l.currPos))
        /\ AbsPos(l.currTokenStart) < Len(r.data)
        /\ C28_Opens(l.state, At(r.data, AbsPos(l.currTokenStart)))

\* the step that completes a token: the byte that ends it is fed, currPos
\* goes past it, and the token is converted out of buf[currTokenStart:currPos]
C28_Completed ==
    (pc = "loop" /\ InProgress /\ l'.state = "Skipping" /\ bufSize' = bufSize) =>
        /\ pc' = "ready"
        /\ Len(out') = Len(out) + 1
        /\ l'.currTokenStart = l.currTokenStart
        /\ l'.currPos = l.currPos + 1
        /\ 0 <= l'.currTokenStart
        /\ l'.currTokenStart <= l'.currPos
        /\ l'.currPos <= Len(l'.buf)
        /\ Len(l'.buf) = Len(l.buf)
        /\ Slice(l.buf, l'.currTokenStart, l'.currPos)
             = Slice(r.data, AbsPos(l.currTokenStart), AbsPos(l.currPos) + 1)
        /\ l'.currTokenEnd = l.currPos
        /\ l'.currTokenStart < l'.currTokenEnd

C28_PositionInvariant == [](C28_InProgress) /\ [][C28_Completed]_vars

\* a string completed after its first bytes were moved to the start of a
\* doubled buffer: a token longer than the initial buffer, at index 0
C28_Witness ==
    /\ ReturnedString
    /\ l.state = "Skipping"
    /\ l.currTokenStart = 0
    /\ l.currPos > 2 * bufSize
    /\ l.currPos <= Len(l.buf)
    /\ l.currTokenEnd = l.currPos - 1

----------------------------------------------------------------------------
(* C29: growth threshold.  In a refill with a token in progress, with      *)
(* prefix_len = currPos - currTokenStart, the buffer is replaced by one of *)
(* twice its length if and only if prefix_len >= currTokenStart, and is    *)
(* reused otherwise; either way currTokenStart is 0 and currPos is         *)
(* prefix_len afterwards, the scanned part of the token is at the start of *)
(* the buffer, and the new input is read into buf[prefix_len:].            *)
C29_Refill ==
    (pc = "loop" /\ l.currPos >= Len(l.buf) /\ ~l.readingFinished /\ InProgress) =>
        LET prefix_len == l.currPos - l.currTokenStart
            grows == prefix_len >= l.currTokenStart
            capacity == IF grows THEN 2 * Len(l.buf) ELSE Len(l.buf)
        IN  /\ Len(fetchKeepToken(l).buf) = capacity
            /\ (Len(fetchKeepToken(l).buf) = 2 * Len(l.buf)) <=> grows
            /\ ~grows => Len(fetchKeepToken(l).buf) = Len(l.buf)
            /\ l'.currTokenStart = 0
            /\ l'.currPos = prefix_len
            /\ Slice(l'.buf, 0, prefix_len) = Slice(l.buf, l.currTokenStart, l.currPos)
            /\ Slice(l'.buf, prefix_len, Len(l'.buf)) = Slice(r.data, r.off, r'.off)
            /\ Len(l'.buf) = prefix_len + (r'.off - r.off)
            /\ ~l'.readingFinished => Len(l'.buf) = capacity
            /\ l'.readingFinished => (Len(l'.buf) < capacity /\ r'.off = Len(r.data))

C29_GrowthThreshold == [][C29_Refill]_vars

\* a buffer of three bytes reused: the token that opened at its last byte is
\* at index 0 after the refill, and two bytes were read behind it
C29_Witness ==
    /\ pc = "loop"
    /\ InProgress
    /\ bufSize = 3
    /\ Len(l.buf) = 3
    /\ l.currTokenStart = 0
    /\ l.currPos = 1
    /\ r.off = 5

----------------------------------------------------------------------------
(* C30 (the claim as it stands): the number terminator is not consumed.    *)
(* When whitespace or a delimiter ends a Number token, the read position   *)
(* after the call still points at that byte, for the next call to process  *)
(* it in state Skipping.                                                   *)

\* the step in which a byte ends the number in progress
C30_NumberEnds == pc = "loop" /\ l.state = "Number" /\ l'.state = "Skipping"

C30_StillAtTerminator == C30_NumberEnds => l'.currPos = l.currPos

C30_TerminatorNotConsumed == [][C30_StillAtTerminator]_vars

(* C30 (amended): the number terminator is consumed.  When whitespace or a *)
(* delimiter ends a Number token, the call returns with the read position  *)
(* one past that byte and the byte outside the token's text; the next call *)
(* starts at the byte after it.  In state Skipping the byte would have     *)
(* been passed over with no token and no error.                            *)
C30_PastTerminator ==
    C30_NumberEnds =>
        LET c == At(l.buf, l.currPos)
        IN  /\ IsDelim(c) \/ IsSpace(c)
            /\ pc' = "ready"
            /\ l'.currPos = l.currPos + 1
            /\ l'.currTokenEnd = l.currPos
            /\ l'.currTokenStart = l.currTokenStart
            /\ Last(out') = currTokenAsNumber([l EXCEPT !.currTokenEnd = l.currPos])
            /\ processStateSkipping(l', c) = [l |-> l', err |-> ""]

\* the call after a number begins past the terminator
C30_NextCallStartsAfter ==
    (pc = "ready" /\ out # <<>> /\ Last(out).t = "number") =>
        /\ l.state = "Skipping"
        /\ l.currPos = l.currTokenEnd + 1
        /\ l.currPos <= Len(l.buf)

C30_TerminatorConsumed == [](C30_NextCallStartsAfter) /\ [][C30_PastTerminator]_vars

\* a number returned, ended by a '}' that is the last byte of the buffer: the
\* read position is at the end of the buffer, past the '}'
C30_Witness ==
    /\ pc = "ready"
    /\ out # <<>>
    /\ Last(out).t = "number"
    /\ l.state = "Skipping"
    /\ At(l.buf, l.currTokenEnd) = 125
    /\ l.currPos = l.currTokenEnd + 1
    /\ l.currPos = Len(l.buf)

----------------------------------------------------------------------------
(* C31: unexpected byte between tokens.  In state Skipping a byte that is  *)
(* not whitespace (0x09, 0x0A, 0x0D, 0x20), not a delimiter, and cannot    *)
(* open a string, a number, a bool or a null makes the token call return   *)
(* an error; such a byte is never skipped silently.                        *)
C31_Unexpected(c) ==
    /\ c \notin {9, 10, 13, 32}
    /\ ~IsDelim(c)
    /\ c # Ch.quote
    /\ ~CanAppearInNumber(c)
    /\ c \notin {Ch.t, Ch.T, Ch.f, Ch.F, Ch.n, Ch.N}

C31_AtUnexpected ==
    /\ pc = "loop"
    /\ l.currPos < Len(l.buf)
    /\ l.state = "Skipping"
    /\ C31_Unexpected(At(l.buf, l.currPos))

C31_UnexpectedByte ==
    [][C31_AtUnexpected =>
          /\ pc' = "ready"
          /\ Len(out') = Len(out) + 1
          /\ Last(out').err \notin {"", "EOF"}]_vars

----------------------------------------------------------------------------
(* C32: literal completion.  In state Bool or Null the token is returned   *)
(* and the state becomes Skipping at the byte that completes the literal:  *)
(* when the last expected letter of true, false or null has been matched.  *)
(* Completion does not depend on any byte after the literal.               *)
C32_Expected ==
    IF l.state = "Null" THEN LiteralNull
    ELSE IF At(l.buf, l.currTokenStart) \in {Ch.t, Ch.T} THEN LiteralTrue
    ELSE LiteralFalse

C32_AtLastLetter ==
    /\ pc = "loop"
    /\ l.currPos < Len(l.buf)
    /\ l.state \in {"Bool", "Null"}
    /\ l.currPos - l.currTokenStart = Len(C32_Expected) - 1
    /\ ToLower(At(l.buf, l.currPos)) = Last(C32_Expected)

C32_Token ==
    IF l.state = "Null" THEN TokenGeneric("null", <<>>)
    ELSE TokenGeneric("bool", IF C32_Expected = LiteralTrue THEN <<1>> ELSE <<0>>)

C32_CompletesAtLastLetter ==
    [][C32_AtLastLetter =>
          /\ out' = Append(out, C32_Token)
          /\ pc' = "ready"
          /\ l'.state = "Skipping"]_vars

----------------------------------------------------------------------------
(* C33: the bytes that open a number.  CanAppearInNumber is true exactly   *)
(* for the digits 0-9 and the bytes - + . e E.  In state Skipping a byte   *)
(* opens a Number token (state Number, currTokenStart at that byte)        *)
(* exactly when CanAppearInNumber is true for it; a quote always opens a   *)
(* String, t T f F always open a Bool and n N always open a Null.          *)
C33_NumberBytes == (48..57) \cup {45, 43, 46, 101, 69}

C33_Set == \A c \in 0..255 : CanAppearInNumber(c) <=> c \in C33_NumberBytes

C33_InSkipping ==
    /\ pc = "loop"
    /\ l.currPos < Len(l.buf)
    /\ l.state = "Skipping"

C33_Opened(state, type) ==
    /\ l'.state = state
    /\ l'.currTokenType = type
    /\ l'.currTokenStart = l.currPos
    /\ l'.currPos = l.currPos + 1
    /\ out' = out
    /\ pc' = "loop"

C33_Steps ==
    C33_InSkipping =>
        LET c == At(l.buf, l.currPos)
        IN  /\ l'.state = "Number" <=> CanAppearInNumber(c)
            /\ l'.state = "Number" <=> c \in C33_NumberBytes
            /\ c \in C33_NumberBytes => C33_Opened("Number", "number")
            /\ c = 34 => C33_Opened("String", "string")
            /\ c \in {116, 84, 102, 70} => C33_Opened("Bool", "bool")
            /\ c \in {110, 78} => C33_Opened("Null", "null")
            /\ l'.state \in {"Skipping", "Number", "String", "Bool", "Null"}

C33_NumberOpeningSet == [](C33_Set) /\ [][C33_Steps]_vars

\* the byte E at the start of the input has opened a number
C33_Witness ==
    /\ pc = "loop"
    /\ l.state = "Number"
    /\ l.currTokenType = "number"
    /\ AbsPos(l.currTokenStart) = 0
    /\ r.data[1] = 69
    /\ CanAppearInNumber(69)
    /\ out = <<>>

----------------------------------------------------------------------------
(* C34: hex decoding.  HexBytesToUint applied to four bytes that are all   *)
(* hex digits (0-9, a-f, A-F) returns d0*4096 + d1*256 + d2*16 + d3, where *)
(* a letter counts the same in upper and lower case; the value is below    *)
(* 65536.  If any of the bytes is not a hex digit it returns an error.     *)
C34_IsHex(c) == c \in (48..57) \cup (97..102) \cup (65..70)

C34_Digit(c) ==
    IF c \in 48..57 THEN c - 48
    ELSE IF c \in 97..102 THEN c - 87
    ELSE c - 55

C34_Called == unesc.pc = "done" /\ Len(unesc.orig) = 4 /\ Len(unesc.res) = 1

C34_HexDecoding ==
    C34_Called =>
        LET in == unesc.orig
        IN  IF \A i \in 1..4 : C34_IsHex(in[i])
            THEN /\ unesc.err = ""
                 /\ unesc.res[1] = C34_Digit(in[1]) * 4096 + C34_Digit(in[2]) * 256
                                     + C34_Digit(in[3]) * 16 + C34_Digit(in[4])
                 /\ unesc.res[1] < 65536
                 /\ unesc.res[1] >= 0
                 /\ HexBytesToUint(LowerSeq(in)) = [v |-> unesc.res[1], err |-> ""]
            ELSE unesc.err # ""

\* fFcA gave 65482
C34_Witness ==
    /\ C34_Called
    /\ unesc.orig = <<102, 70, 99, 65>>
    /\ unesc.err = ""
    /\ unesc.res = <<65482>>

----------------------------------------------------------------------------
(* C35: SetSkipDelims(flag) sets the lexer's skip-delimiters configuration *)
(* to the value of flag.  On a newly constructed lexer the configuration   *)
(* is false; after SetSkipDelims(false) it is false, after                 *)
(* SetSkipDelims(true) it is true and no call ever returns a Delim token.  *)
C35_Fresh == pc = "config" => ~l.skipDelims

C35_Configured == pc # "config" => l.skipDelims = expect.skipDelims

C35_NoDelim ==
    (pc # "config" /\ expect.skipDelims) => \A i \in DOMAIN out : out[i].t # "delim"

C35_SetSkipDelims == C35_Fresh /\ C35_Configured /\ C35_NoDelim

----------------------------------------------------------------------------
(* C36: the lexer and the unescaper agree on escapes.  When the lexer's    *)
(* state machine has accepted a string body (it is at the closing quote in *)
(* state String, having given no error), UnescapeBytesInplace on that body *)
(* fails with no invalid-escape, invalid-hex or incomplete-escape error:   *)
(* the call returns the string, or one of the two surrogate errors.        *)
C36_SurrogateErrors == {"missing second sequence point", "invalid surrogate pair"}

C36_AtClosingQuote ==
    /\ pc = "loop"
    /\ l.currPos < Len(l.buf)
    /\ l.state = "String"
    /\ At(l.buf, l.currPos) = Ch.quote

C36_Body == Slice(l.buf, l.currTokenStart + 1, l.currPos)

C36_Accepted ==
    C36_AtClosingQuote =>
        /\ UnescapeBytesInplace(C36_Body).err \in {""} \cup C36_SurrogateErrors
        /\ UnescapeBytesInplace(C36_Body).err \notin
              {"invalid escape sequence", "invalid unicode sequence",
               "incomplete escape sequence"}

C36_Step ==
    C36_AtClosingQuote =>
        /\ Len(out') = Len(out) + 1
        /\ \/ Last(out').err = "" /\ Last(out').t = "string"
           \/ Last(out').err \in C36_SurrogateErrors

C36_FailsAfterQuote ==
    (pc = "ready" /\ out # <<>> /\ l.state = "Skipping"
       /\ Last(out).err \notin {"", "EOF"}
       /\ l.currTokenType = "string") =>
        Last(out).err \in C36_SurrogateErrors

C36_EscapesAgree == [](C36_Accepted /\ C36_FailsAfterQuote) /\ [][C36_Step]_vars

\* "\uD83D\n": the lexer accepted the body and the unescaper found the
\* second half of the pair missing
C36_Witness ==
    /\ pc = "ready"
    /\ r.data = <<34, 92, 117, 68, 56, 51, 68, 92, 110, 34>>
    /\ l.state = "Skipping"
    /\ l.currTokenType = "string"
    /\ out = <<Failure("missing second sequence point")>>

----------------------------------------------------------------------------
(* C37: termination.  With a finite input, a source that reports the end   *)
(* of the stream, and an initial buffer of at least one byte, every token  *)
(* call returns: a token, io.EOF or an error.  Each turn of the scan loop  *)
(* that does not end the call consumes one buffered byte, or is a refill   *)
(* that reads at least one byte or marks the source finished; so a measure *)
(* of what is left to do falls with every such turn.                       *)
C37_Left ==
    2 * (Len(r.data) - r.off) + (Len(l.buf) - l.currPos)
      + (IF l.readingFinished THEN 0 ELSE 1)

C37_Turn == pc = "loop" /\ pc' = "loop"

C37_Consumes ==
    /\ l.currPos < Len(l.buf)
    /\ l'.currPos = l.currPos + 1
    /\ l'.buf = l.buf
    /\ r' = r

C37_Refills ==
    /\ l.currPos >= Len(l.buf)
    /\ ~l.readingFinished
    /\ \/ r'.off > r.off /\ Len(l'.buf) - l'.currPos = r'.off - r.off
       \/ l'.readingFinished

C37_Progress ==
    C37_Turn =>
        /\ C37_Consumes \/ C37_Refills
        /\ C37_Left' < C37_Left
        /\ C37_Left' >= 0

\* the refill that is due reads a byte or more, or finds the source finished
C37_RefillDue == pc = "loop" /\ l.currPos >= Len(l.buf) /\ ~l.readingFinished

C37_RefillMoves ==
    C37_RefillDue =>
        \/ fetchNewData(l, r).r.off > r.off
        \/ fetchNewData(l, r).l.readingFinished

C37_Sound ==
    /\ bufSize >= 1
    /\ Len(l.buf) >= l.currPos
    /\ C37_Left >= 0
    /\ C37_RefillMoves

C37_Returns == (pc = "loop") ~> (pc = "ready")

C37_Termination == [](C37_Sound) /\ [][C37_Progress]_vars /\ C37_Returns

\* a call has returned a string for which the buffer of one byte was
\* doubled more than once, from a source that gives a byte a Read
C37_Witness ==
    /\ pc = "ready"
    /\ bufSize = 1
    /\ r.max = 1
    /\ out # <<>>
    /\ Last(out).t = "string"
    /\ Len(l.buf) >= 4

----------------------------------------------------------------------------
(* C38: the byte after a literal.  The byte that follows a complete true,  *)
(* false or null is consumed by the call that returns the Bool or Null,    *)
(* whatever its value: it is compared with nothing, and it is not fed      *)
(* again in state Skipping, so it never opens the next token (the quote in *)
(* true"x" does not start a string).                                       *)
C38_Literal ==
    IF l.state = "Null" THEN LiteralNull
    ELSE IF ToLower(At(l.buf, l.currTokenStart)) = Ch.t THEN LiteralTrue
    ELSE LiteralFalse

C38_AtByteAfter ==
    /\ pc = "loop"
    /\ l.currPos < Len(l.buf)
    /\ l.state \in {"Bool", "Null"}
    /\ l.currPos - l.currTokenStart = Len(C38_Literal)

C38_Token(first) ==
    IF first \in {Ch.n, Ch.N} THEN TokenGeneric("null", <<>>)
    ELSE TokenGeneric("bool", IF first \in {Ch.t, Ch.T} THEN <<1>> ELSE <<0>>)

C38_Step ==
    C38_AtByteAfter =>
        /\ out' = Append(out, C38_Token(At(l.buf, l.currTokenStart)))
        /\ pc' = "ready"
        /\ l'.state = "Skipping"
        /\ l'.currPos = l.currPos + 1
        /\ l'.currTokenEnd = l.currPos

\* what follows the byte after the literal in the input
C38_Tail ==
    SubSeq(r.data, (IF r.data[1] \in {Ch.f, Ch.F} THEN 5 ELSE 4) + 2, Len(r.data))

\* the results of the calls after the one that returned the literal: those
\* of the tail alone, where x is skipped and the quote opens a string that
\* never ends
C38_AfterTail ==
    IF C38_Tail = <<120, 34>>
    THEN [i \in 1..MaxTail |-> Failure("unexpected EOF")]
    ELSE EOFs(MaxTail)

C38_ByteAfterIsDropped ==
    Done =>
        /\ out = <<C38_Token(r.data[1])>> \o C38_AfterTail
        /\ \A i \in DOMAIN out : out[i].t # "string"

C38_ByteAfterConsumed == [](C38_ByteAfterIsDropped) /\ [][C38_Step]_vars

\* true"x": Bool(true) and no string
C38_Witness ==
    /\ Done
    /\ r.data = <<116, 114, 117, 101, 34, 120, 34>>
    /\ out = <<TokenGeneric("bool", <<1>>)>> \o [i \in 1..MaxTail |-> Failure("unexpected EOF")]

----------------------------------------------------------------------------
(* C39: no surrogate is ever written.  Every code point the unescaper      *)
(* writes for \u escapes is a Unicode scalar value: the value of an escape *)
(* outside D800..DFFF, or the code point above FFFF of a high and a low    *)
(* surrogate.  An escape that decodes to a surrogate with none pending     *)
(* writes nothing and is kept pending, and a pending surrogate is given up *)
(* only with an error or by the low surrogate that completes a high one:   *)
(* so a low surrogate that comes first, and any surrogate left unpaired,   *)
(* make UnescapeBytesInplace return an error.                              *)
C39_High(rn) == 55296 <= rn /\ rn <= 56319

C39_Low(rn) == 56320 <= rn /\ rn <= 57343

C39_Scalar(rn) == 0 <= rn /\ rn <= 1114111 /\ ~(55296 <= rn /\ rn <= 57343)

C39_Turn == unesc.pc = "loop" /\ unesc.u.readIter < Len(unesc.u.input)

\* the turn is at the last of the four hex digits of an escape
C39_AtLastDigit == C39_Turn /\ unesc.u.pendingUnicodeBytes = 1

C39_Escape ==
    HexBytesToUint(Slice(unesc.u.input, unesc.u.readIter - 3, unesc.u.readIter + 1)).v

C39_Written == Slice(unesc'.u.input, unesc.u.writeIter, unesc'.u.writeIter)

C39_Failed == unesc'.pc = "done" /\ unesc'.err # ""

C39_EscapeStep ==
    (C39_AtLastDigit /\ ~C39_Failed) =>
        LET u == unesc.u
            h == C39_Escape
        IN  IF ~u.pendingSecondUTF16SeqPoint
            THEN IF C39_High(h) \/ C39_Low(h)
                 THEN /\ C39_Written = <<>>
                      /\ unesc'.u.pendingSecondUTF16SeqPoint
                      /\ unesc'.u.firstUTF16SeqPoint = h
                 ELSE /\ C39_Scalar(h)
                      /\ C39_Written = EncodeRune(h)
                      /\ ~unesc'.u.pendingSecondUTF16SeqPoint
            ELSE /\ C39_High(u.firstUTF16SeqPoint)
                 /\ C39_Low(h)
                 /\ C39_Scalar(65536 + (u.firstUTF16SeqPoint - 55296) * 1024 + (h - 56320))
                 /\ C39_Written =
                       EncodeRune(65536 + (u.firstUTF16SeqPoint - 55296) * 1024 + (h - 56320))
                 /\ ~unesc'.u.pendingSecondUTF16SeqPoint

\* a pending surrogate stays pending, but for an error or the last digit of
\* the escape after it
C39_PendingKept ==
    (unesc.pc = "loop" /\ unesc.u.pendingSecondUTF16SeqPoint /\ ~C39_AtLastDigit) =>
        \/ unesc'.pc = "done" /\ unesc'.err # ""
        \/ /\ unesc'.pc = "loop"
           /\ unesc'.u.pendingSecondUTF16SeqPoint
           /\ unesc'.u.firstUTF16SeqPoint = unesc.u.firstUTF16SeqPoint

\* the bytes ED A0..BF, with which the UTF-8 form of a surrogate would begin
C39_SurrogateBytes(s) ==
    \E i \in 1..(Len(s) - 1) : s[i] = 237 /\ s[i + 1] >= 160

\* the input begins with the escape of a low surrogate
C39_LowFirst ==
    /\ Len(unesc.orig) >= 6
    /\ unesc.orig[1] = 92
    /\ unesc.orig[2] \in {117, 85}
    /\ HexBytesToUint(SubSeq(unesc.orig, 3, 6)).err = ""
    /\ C39_Low(HexBytesToUint(SubSeq(unesc.orig, 3, 6)).v)

C39_Result ==
    /\ (unesc.pc = "done" /\ unesc.err = "") =>
          /\ ~unesc.u.pendingSecondUTF16SeqPoint
          /\ ~C39_SurrogateBytes(unesc.res)
    /\ (unesc.pc = "done" /\ C39_LowFirst) => unesc.err # ""

C39_NoSurrogateWritten == [](C39_Result) /\ [][C39_EscapeStep /\ C39_PendingKept]_vars

\* \uDCA9\uD83D, a low surrogate and then a high one: an error, and nothing
\* written
C39_Witness ==
    /\ unesc.pc = "done"
    /\ unesc.orig = <<92, 117, 68, 67, 65, 57, 92, 117, 68, 56, 51, 68>>
    /\ unesc.err = "invalid surrogate pair"
    /\ unesc.u.writeIter = 0

====
